---- MODULE Spec2Model ----
(***************************************************************************)
(* Response validation and metrics recording of the K6 contact-list test   *)
(* suite: ValidatorService (validator.service.ts), MetricsService          *)
(* (metrics.service.ts), LoggerService.error (logger.service.ts) and the   *)
(* constants they read (environments.ts).                                  *)
(*                                                                         *)
(* JavaScript values are tagged records.  Text is a sequence of            *)
(* one-character strings, so that length, substring and JSON parsing are   *)
(* computed on the characters.                                             *)
(***************************************************************************)
EXTENDS Integers, Sequences, FiniteSets, Bags, TLC

VARIABLES errorRate, successRate, apiDuration, failedRequests,
          console, checkResults, call, ncalls,
          pc, cur, trace, calls, legacy,
          requests, flow, pure

vars == <<errorRate, successRate, apiDuration, failedRequests,
          console, checkResults, call, ncalls,
          pc, cur, trace, calls, legacy,
          requests, flow, pure>>

\* the state of the virtual users and of the legacy helpers
vuVars == <<pc, cur, trace, calls>>

\* the HTTP requests sent so far, the locals of the running helper or test
\* iteration, and the latest application of a function of the configuration,
\* the HTTP service or the report generator
appVars == <<requests, flow, pure>>

(***************************************************************************)
(* Bounds of the model.                                                    *)
(***************************************************************************)
\* number of validator / recorder calls in one run
MaxCalls == 2
\* number of virtual users that run validateResponse concurrently
NumVUs == 2

(***************************************************************************)
(* Program constants.                                                      *)
(***************************************************************************)
HTTP_STATUS_OK == 200
HTTP_STATUS_CREATED == 201
HTTP_STATUS_BAD_REQUEST == 400
HTTP_STATUS_NOT_FOUND == 404
MAX_RESPONSE_TIME_MS == 500
LOG_BODY_PREVIEW_LENGTH == 200

(***************************************************************************)
(* JavaScript values.                                                      *)
(***************************************************************************)
Undefined == [t |-> "undefined"]
Null == [t |-> "null"]
Bool(b) == [t |-> "boolean", b |-> b]
Num(n) == [t |-> "number", n |-> n]
Str(s) == [t |-> "string", s |-> s]
Arr(items) == [t |-> "array", items |-> items]
\* an object is the sequence of its (key, value) members in source order
Obj(members) == [t |-> "object", members |-> members]

Min(a, b) == IF a < b THEN a ELSE b

\* String.prototype.substring(0, n) on a text
Substring0(s, n) == SubSeq(s, 1, Min(n, Len(s)))

\* s starts with the text lit at 1-based position i
StartsAt(s, i, lit) ==
    /\ i + Len(lit) - 1 <= Len(s)
    /\ \A k \in 1..Len(lit) : s[i + k - 1] = lit[k]

\* ToBoolean
Truthy(v) ==
    CASE v.t = "undefined" -> FALSE
      [] v.t = "null" -> FALSE
      [] v.t = "boolean" -> v.b
      [] v.t = "number" -> v.n # 0
      [] v.t = "string" -> Len(v.s) > 0
      [] OTHER -> TRUE

\* a || b
JsOr(a, b) == IF Truthy(a) THEN a ELSE b

\* String(v) for the values a response body can hold
ToStr(v) ==
    CASE v.t = "string" -> v.s
      [] v.t = "null" -> <<"n", "u", "l", "l">>
      [] OTHER -> <<"u", "n", "d", "e", "f", "i", "n", "e", "d">>

(***************************************************************************)
(* JSON.parse on the grammar spanned by the bodies of the model: the       *)
(* literals null, true, false, unsigned integers, strings without          *)
(* escapes, arrays and objects, with blanks between tokens.  A parse       *)
(* result is [ok, val, next]; ok = FALSE stands for the SyntaxError.       *)
(***************************************************************************)
Digits == {"0", "1", "2", "3", "4", "5", "6", "7", "8", "9"}

DigitVal(c) ==
    CASE c = "0" -> 0 [] c = "1" -> 1 [] c = "2" -> 2 [] c = "3" -> 3
      [] c = "4" -> 4 [] c = "5" -> 5 [] c = "6" -> 6 [] c = "7" -> 7
      [] c = "8" -> 8 [] OTHER -> 9

Failed == [ok |-> FALSE, val |-> Undefined, next |-> 0]
Parsed(v, n) == [ok |-> TRUE, val |-> v, next |-> n]

RECURSIVE SkipBlanks(_, _)
SkipBlanks(s, i) ==
    IF i <= Len(s) /\ s[i] = " " THEN SkipBlanks(s, i + 1) ELSE i

\* index of the closing quote of the string whose first character is at i, or 0
RECURSIVE StringEnd(_, _)
StringEnd(s, i) ==
    IF i > Len(s) THEN 0
    ELSE IF s[i] = "\"" THEN i
    ELSE IF s[i] = "\\" THEN 0
    ELSE StringEnd(s, i + 1)

\* s[i] is an opening quote
ParseString(s, i) ==
    LET e == StringEnd(s, i + 1)
    IN  IF e = 0 THEN Failed ELSE Parsed(Str(SubSeq(s, i + 1, e - 1)), e + 1)

RECURSIVE NumberEnd(_, _)
NumberEnd(s, i) ==
    IF i <= Len(s) /\ s[i] \in Digits THEN NumberEnd(s, i + 1) ELSE i

RECURSIVE DigitsValue(_, _, _)
DigitsValue(s, i, e) ==
    IF e < i THEN 0 ELSE 10 * DigitsValue(s, i, e - 1) + DigitVal(s[e])

\* s[i] is a digit; a leading zero ends the number
ParseNumber(s, i) ==
    LET e == IF s[i] = "0" THEN i + 1 ELSE NumberEnd(s, i)
    IN  Parsed(Num(DigitsValue(s, i, e - 1)), e)

RECURSIVE ParseValue(_, _)
RECURSIVE ParseElements(_, _, _)
RECURSIVE ParseMembers(_, _, _)

\* the elements of an array after "[" or ","; acc holds those read so far
ParseElements(s, i, acc) ==
    LET r == ParseValue(s, i)
        j == SkipBlanks(s, r.next)
    IN  IF ~r.ok \/ j > Len(s) THEN Failed
        ELSE IF s[j] = "," THEN ParseElements(s, j + 1, Append(acc, r.val))
        ELSE IF s[j] = "]" THEN Parsed(Arr(Append(acc, r.val)), j + 1)
        ELSE Failed

\* the members of an object after "{" or ","; acc holds those read so far
ParseMembers(s, i, acc) ==
    LET k == SkipBlanks(s, i)
        key == IF k <= Len(s) /\ s[k] = "\"" THEN ParseString(s, k) ELSE Failed
        c == SkipBlanks(s, key.next)
        r == IF key.ok /\ c <= Len(s) /\ s[c] = ":" THEN ParseValue(s, c + 1) ELSE Failed
        j == SkipBlanks(s, r.next)
        m == Append(acc, [key |-> key.val.s, val |-> r.val])
    IN  IF ~r.ok \/ j > Len(s) THEN Failed
        ELSE IF s[j] = "," THEN ParseMembers(s, j + 1, m)
        ELSE IF s[j] = "}" THEN Parsed(Obj(m), j + 1)
        ELSE Failed

ParseValue(s, i0) ==
    LET i == SkipBlanks(s, i0)
    IN  IF i > Len(s) THEN Failed
        ELSE IF StartsAt(s, i, <<"n", "u", "l", "l">>) THEN Parsed(Null, i + 4)
        ELSE IF StartsAt(s, i, <<"t", "r", "u", "e">>) THEN Parsed(Bool(TRUE), i + 4)
        ELSE IF StartsAt(s, i, <<"f", "a", "l", "s", "e">>) THEN Parsed(Bool(FALSE), i + 5)
        ELSE IF s[i] \in Digits THEN ParseNumber(s, i)
        ELSE IF s[i] = "\"" THEN ParseString(s, i)
        ELSE IF s[i] = "[" THEN
            (IF SkipBlanks(s, i + 1) <= Len(s) /\ s[SkipBlanks(s, i + 1)] = "]"
             THEN Parsed(Arr(<<>>), SkipBlanks(s, i + 1) + 1)
             ELSE ParseElements(s, i + 1, <<>>))
        ELSE IF s[i] = "{" THEN
            (IF SkipBlanks(s, i + 1) <= Len(s) /\ s[SkipBlanks(s, i + 1)] = "}"
             THEN Parsed(Obj(<<>>), SkipBlanks(s, i + 1) + 1)
             ELSE ParseMembers(s, i + 1, <<>>))
        ELSE Failed

\* JSON.parse(text): [ok, val]; ok = FALSE when JSON.parse throws
JsonParse(s) ==
    LET r == ParseValue(s, 1)
    IN  IF r.ok /\ SkipBlanks(s, r.next) = Len(s) + 1
        THEN [ok |-> TRUE, val |-> r.val]
        ELSE [ok |-> FALSE, val |-> Undefined]

\* v.key for a property key that no prototype defines: own members of an
\* object (the last of duplicate keys wins), undefined on any other value
\* that has properties
RECURSIVE Lookup(_, _, _)
Lookup(members, key, n) ==
    IF n = 0 THEN Undefined
    ELSE IF members[n].key = key THEN members[n].val
    ELSE Lookup(members, key, n - 1)

GetProp(v, key) ==
    IF v.t = "object" THEN Lookup(v.members, key, Len(v.members)) ELSE Undefined

\* reading a property of undefined or null throws a TypeError
PropThrows(v) == v.t \in {"undefined", "null"}

(***************************************************************************)
(* Responses.  A response is [status, timings, body]: status is a number   *)
(* or undefined, timings is undefined or [t |-> "timings", duration],      *)
(* body is null or a text.                                                 *)
(***************************************************************************)
Timings(d) == [t |-> "timings", duration |-> d]
Response(status, timings, body) == [status |-> status, timings |-> timings, body |-> body]

\* x === y
StrictEquals(x, y) == x = y

\* x < n for a number n: an operand that is not a number converts to NaN
LessThan(x, n) == x.t = "number" /\ x.n < n

\* mutant: the default wins over a supplied argument
DefaultToAlways(arg, default) == default

\* a parameter default: used when the argument is omitted (undefined)
DefaultTo(arg, default) == IF arg = Undefined THEN default ELSE arg

(***************************************************************************)
(* check(response, checks) of k6: the predicates are evaluated in key      *)
(* order and each is reported under its name; a predicate that throws is   *)
(* reported as failed and its exception ends the call.  A check is         *)
(* [name, outcome] with outcome "pass", "fail" or "throw".                 *)
(***************************************************************************)
RECURSIVE K6CheckFrom(_, _, _, _)
K6CheckFrom(checks, i, reported, succ) ==
    IF i > Len(checks)
    THEN [reported |-> reported, success |-> succ, raised |-> FALSE]
    ELSE LET c == checks[i]
             rep == Append(reported, [name |-> c.name, pass |-> c.outcome = "pass"])
         IN  IF c.outcome = "throw"
             THEN [reported |-> rep, success |-> FALSE, raised |-> TRUE]
             ELSE K6CheckFrom(checks, i + 1, rep, succ /\ c.outcome = "pass")

K6Check(checks) == K6CheckFrom(checks, 1, <<>>, TRUE)

Outcome(b) == IF b THEN "pass" ELSE "fail"

CheckName(testName, label, arg) == [testName |-> testName, label |-> label, arg |-> arg]

(***************************************************************************)
(* MetricsService: the value of a series after the recording operation.    *)
(* Rate.add appends a boolean sample, Counter.add(1) adds one, Trend.add   *)
(* appends a number and rejects any other value with a warning (the run    *)
(* option "throw" is not set by the suite).                                *)
(***************************************************************************)
\* mutant: the rate keeps the latest sample only
RecordErrorOverwrite(isError) == <<isError>>

\* mutant: only errors are recorded
RecordErrorOnlyErrors(isError) == IF isError THEN Append(errorRate, isError) ELSE errorRate

RecordError(isError) == Append(errorRate, isError)

\* mutant: the success series is fed the error flag
RecordSuccessNegated(isSuccess) == Append(successRate, ~isSuccess)

RecordSuccess(isSuccess) == Append(successRate, isSuccess)

\* mutant: the trend keeps the latest duration only
RecordApiDurationLatest(duration) ==
    IF duration.t = "number" THEN <<duration.n>> ELSE apiDuration

RecordApiDuration(duration) ==
    IF duration.t = "number" THEN Append(apiDuration, duration.n) ELSE apiDuration

\* mutant: the counter is raised by two
IncrementFailedRequestsTwice == failedRequests + 2

IncrementFailedRequests == failedRequests + 1

(***************************************************************************)
(* LoggerService.error(message, context) writes one line to console.error. *)
(* The line of logFailure is kept as the holes of its template:            *)
(* " [<context>] <mark> <testName> failed: Status <status>, Body: <preview>" *)
(***************************************************************************)
NoBody == <<"N", "o", " ", "b", "o", "d", "y">>

LoggerError(message, context) ==
    Append(console, [stream |-> "error", context |-> context,
                     testName |-> message.testName, status |-> message.status,
                     bodyPreview |-> message.bodyPreview])

\* mutant: only a null body gets the placeholder
BodyPreviewNullOnly(response) ==
    IF response.body # Null
    THEN Substring0(ToStr(response.body), LOG_BODY_PREVIEW_LENGTH)
    ELSE NoBody

\* mutant: the preview is the whole body
BodyPreviewWholeBody(response) ==
    IF Truthy(response.body) THEN ToStr(response.body) ELSE NoBody

\* response.body ? String(response.body).substring(0, LOG_BODY_PREVIEW_LENGTH) : 'No body'
BodyPreview(response) ==
    IF Truthy(response.body)
    THEN Substring0(ToStr(response.body), LOG_BODY_PREVIEW_LENGTH)
    ELSE NoBody

LogFailure(testName, response) ==
    LoggerError([testName |-> testName, status |-> response.status,
                 bodyPreview |-> BodyPreview(response)], "Validation")

(***************************************************************************)
(* ValidatorService.validateResponse                                       *)
(***************************************************************************)
\* mutant: the status check passes on a fresh recorder only
StatusIsOnFreshRecorder(r, expectedStatus) ==
    StrictEquals(r.status, expectedStatus) /\ Len(errorRate) = 0

\* r.status === expectedStatus
StatusIs(r, expectedStatus) == StrictEquals(r.status, expectedStatus)

\* mutant: the latency bound is inclusive
ResponseTimeOkInclusive(r) ==
    r.timings.duration.t = "number" /\ r.timings.duration.n <= MAX_RESPONSE_TIME_MS

\* r.timings.duration < MAX_RESPONSE_TIME_MS, for a response that has timings
ResponseTimeOk(r) == LessThan(r.timings.duration, MAX_RESPONSE_TIME_MS)

\* mutant: the length test is dropped
HasBodyNotNullOnly(r) == r.body # Null

\* mutant: the body must also parse as JSON
HasBodyParsable(r) == r.body # Null /\ JsonParse(ToStr(r.body)).ok

\* r.body !== null && String(r.body).length > 0
HasBody(r) == r.body # Null /\ Len(ToStr(r.body)) > 0

ResponseChecks(r, testName, expectedStatus) ==
    << [name |-> CheckName(testName, "status is", expectedStatus),
        outcome |-> Outcome(StatusIs(r, expectedStatus))],
       [name |-> CheckName(testName, "response time <", Num(MAX_RESPONSE_TIME_MS)),
        outcome |-> IF PropThrows(r.timings) THEN "throw" ELSE Outcome(ResponseTimeOk(r))],
       [name |-> CheckName(testName, "response has body", Undefined),
        outcome |-> Outcome(HasBody(r))] >>

CallRecord(op, response, testName, expectedArg, raised, result) ==
    [op |-> op, response |-> response, testName |-> testName,
     expectedStatus |-> expectedArg, raised |-> raised, result |-> result]

\* the call ends with a TypeError: what check() reported stays reported,
\* nothing else has happened
Raise(op, response, testName, expectedArg, reported) ==
    /\ checkResults' = reported
    /\ call' = CallRecord(op, response, testName, expectedArg, TRUE, FALSE)
    /\ ncalls' = ncalls + 1
    /\ UNCHANGED <<errorRate, successRate, apiDuration, failedRequests, console>>

\* mutant: the failure branch is taken on every outcome
FailureEffectsUnguarded(success, testName, response) ==
    /\ failedRequests' = IncrementFailedRequests
    /\ console' = LogFailure(testName, response)

\* if (!success) { incrementFailedRequests(); logFailure(testName, response) }
FailureEffects(success, testName, response) ==
    /\ failedRequests' = IF ~success THEN IncrementFailedRequests ELSE failedRequests
    /\ console' = IF ~success THEN LogFailure(testName, response) ELSE console

\* response.timings.duration of the recording step throws on the same
\* responses as the second check does
ValidateResponse(response, testName, expectedArg) ==
    LET expectedStatus == DefaultTo(expectedArg, Num(HTTP_STATUS_OK))
        res == K6Check(ResponseChecks(response, testName, expectedStatus))
        success == res.success
    IN  IF res.raised \/ PropThrows(response.timings)
        THEN Raise("validateResponse", response, testName, expectedArg, res.reported)
        ELSE /\ checkResults' = res.reported
             /\ errorRate' = RecordError(~success)
             /\ successRate' = RecordSuccess(success)
             /\ apiDuration' = RecordApiDuration(response.timings.duration)
             /\ FailureEffects(success, testName, response)
             /\ call' = CallRecord("validateResponse", response, testName, expectedArg, FALSE, success)
             /\ ncalls' = ncalls + 1

(***************************************************************************)
(* ValidatorService.validateErrorResponse                                  *)
(***************************************************************************)
KeyError == <<"e", "r", "r", "o", "r">>
KeyMessage == <<"m", "e", "s", "s", "a", "g", "e">>

\* mutant: the presence of the key decides, whatever its value
HasErrorMessageKeyPresent(r) ==
    LET parsed == JsonParse(ToStr(r.body))
    IN  /\ parsed.ok
        /\ parsed.val.t = "object"
        /\ \E i \in DOMAIN parsed.val.members :
               parsed.val.members[i].key \in {KeyError, KeyMessage}

\* try { body = JSON.parse(String(r.body)); return Boolean(body.error || body.message) }
\* catch { return false }
HasErrorMessage(r) ==
    LET parsed == JsonParse(ToStr(r.body))
    IN  IF ~parsed.ok THEN FALSE
        ELSE IF PropThrows(parsed.val) THEN FALSE
        ELSE Truthy(JsOr(GetProp(parsed.val, KeyError), GetProp(parsed.val, KeyMessage)))

ErrorResponseChecks(r, testName, expectedStatus) ==
    << [name |-> CheckName(testName, "status is", expectedStatus),
        outcome |-> Outcome(StatusIs(r, expectedStatus))],
       [name |-> CheckName(testName, "has error message", Undefined),
        outcome |-> Outcome(HasErrorMessage(r))] >>

\* mutant: the negative validator drives the recorder as validateResponse does
ValidateErrorResponseRecording(response, testName, expectedArg) ==
    LET expectedStatus == DefaultTo(expectedArg, Num(HTTP_STATUS_BAD_REQUEST))
        res == K6Check(ErrorResponseChecks(response, testName, expectedStatus))
    IN  /\ checkResults' = res.reported
        /\ errorRate' = RecordError(~res.success)
        /\ successRate' = RecordSuccess(res.success)
        /\ failedRequests' = IF ~res.success THEN IncrementFailedRequests ELSE failedRequests
        /\ call' = CallRecord("validateErrorResponse", response, testName, expectedArg,
                              FALSE, res.success)
        /\ ncalls' = ncalls + 1
        /\ UNCHANGED <<apiDuration, console>>

ValidateErrorResponse(response, testName, expectedArg) ==
    LET expectedStatus == DefaultTo(expectedArg, Num(HTTP_STATUS_BAD_REQUEST))
        res == K6Check(ErrorResponseChecks(response, testName, expectedStatus))
    IN  IF res.raised
        THEN Raise("validateErrorResponse", response, testName, expectedArg, res.reported)
        ELSE /\ checkResults' = res.reported
             /\ call' = CallRecord("validateErrorResponse", response, testName, expectedArg,
                                   FALSE, res.success)
             /\ ncalls' = ncalls + 1
             /\ UNCHANGED <<errorRate, successRate, apiDuration, failedRequests, console>>

(***************************************************************************)
(* The legacy helpers checkResponse and checkErrorResponse, kept for the   *)
(* callers that were not moved to ValidatorService.  The module has its    *)
(* own metrics and writes to console.error itself; l is the state of these *)
(* ([errorRate, successRate, apiDuration, failedRequests, console] and the *)
(* end of the latest call, [raised, result]).                              *)
(***************************************************************************)
LEGACY_EXPECTED_STATUS == 200
LEGACY_ERROR_EXPECTED_STATUS == 400
LEGACY_MAX_RESPONSE_TIME_MS == 500
LEGACY_BODY_PREVIEW_LENGTH == 200

\* Trend.add(v)
TrendAdd(series, v) == IF v.t = "number" THEN Append(series, v.n) ELSE series

\* mutant: the legacy latency bound is inclusive
LegacyResponseTimeOkInclusive(r) ==
    r.timings.duration.t = "number" /\ r.timings.duration.n <= LEGACY_MAX_RESPONSE_TIME_MS

\* r.timings.duration < 500
LegacyResponseTimeOk(r) == LessThan(r.timings.duration, LEGACY_MAX_RESPONSE_TIME_MS)

LegacyResponseChecks(r, testName, expectedStatus) ==
    << [name |-> CheckName(testName, "status is", expectedStatus),
        outcome |-> Outcome(StrictEquals(r.status, expectedStatus))],
       [name |-> CheckName(testName, "response time <", Num(LEGACY_MAX_RESPONSE_TIME_MS)),
        outcome |-> IF PropThrows(r.timings) THEN "throw" ELSE Outcome(LegacyResponseTimeOk(r))],
       [name |-> CheckName(testName, "response has body", Undefined),
        outcome |-> Outcome(r.body # Null /\ Len(ToStr(r.body)) > 0)] >>

\* response.body ? String(response.body).substring(0, 200) : 'No body'
LegacyBodyPreview(response) ==
    IF Truthy(response.body)
    THEN Substring0(ToStr(response.body), LEGACY_BODY_PREVIEW_LENGTH)
    ELSE NoBody

\* console.error of the failure line, which carries no context
LegacyConsoleError(l, testName, response) ==
    Append(l.console, [stream |-> "error", context |-> "", testName |-> testName,
                       status |-> response.status,
                       bodyPreview |-> LegacyBodyPreview(response)])

CheckResponse(l, response, testName, expectedArg) ==
    LET expectedStatus == DefaultTo(expectedArg, Num(LEGACY_EXPECTED_STATUS))
        res == K6Check(LegacyResponseChecks(response, testName, expectedStatus))
        success == res.success
    IN  IF res.raised \/ PropThrows(response.timings)
        THEN [l EXCEPT !.raised = TRUE, !.result = FALSE]
        ELSE [errorRate |-> Append(l.errorRate, ~success),
              successRate |-> Append(l.successRate, success),
              apiDuration |-> TrendAdd(l.apiDuration, response.timings.duration),
              failedRequests |-> IF ~success THEN l.failedRequests + 1 ELSE l.failedRequests,
              console |-> IF ~success THEN LegacyConsoleError(l, testName, response)
                          ELSE l.console,
              raised |-> FALSE,
              result |-> success]

\* try { body = JSON.parse(String(r.body)); return body.error || body.message }
\* catch (e) { return false }: the value returned, which check() reads as a boolean
LegacyErrorMessageValue(r) ==
    LET parsed == JsonParse(ToStr(r.body))
    IN  IF ~parsed.ok THEN Bool(FALSE)
        ELSE IF PropThrows(parsed.val) THEN Bool(FALSE)
        ELSE JsOr(GetProp(parsed.val, KeyError), GetProp(parsed.val, KeyMessage))

LegacyErrorResponseChecks(r, testName, expectedStatus) ==
    << [name |-> CheckName(testName, "status is", expectedStatus),
        outcome |-> Outcome(StrictEquals(r.status, expectedStatus))],
       [name |-> CheckName(testName, "has error message", Undefined),
        outcome |-> Outcome(Truthy(LegacyErrorMessageValue(r)))] >>

CheckErrorResponse(l, response, testName, expectedArg) ==
    LET expectedStatus == DefaultTo(expectedArg, Num(LEGACY_ERROR_EXPECTED_STATUS))
        res == K6Check(LegacyErrorResponseChecks(response, testName, expectedStatus))
    IN  [l EXCEPT !.raised = res.raised, !.result = res.success]

(***************************************************************************)
(* Inputs.                                                                 *)
(***************************************************************************)
TextNotJson == <<"n", "o", "t", " ", "j", "s", "o", "n">>
TextOk == <<"o", "k">>
TextNullLiteral == <<"n", "u", "l", "l">>
TextEmptyObject == <<"{", "}">>
TextOkTrue == <<"{", "\"", "o", "k", "\"", ":", "t", "r", "u", "e", "}">>
TextMessage == <<"{", "\"", "m", "e", "s", "s", "a", "g", "e", "\"", ":", "\"", "E", "m", "a", "i", "l", " ", "i", "n", " ", "u", "s", "e", "\"", "}">>
TextMessageEmpty == <<"{", "\"", "m", "e", "s", "s", "a", "g", "e", "\"", ":", "\"", "\"", "}">>
TextError == <<"{", "\"", "e", "r", "r", "o", "r", "\"", ":", "\"", "x", "\"", "}">>
TextErrorZero == <<"{", "\"", "e", "r", "r", "o", "r", "\"", ":", "0", "}">>
TextErrorFalseMessage == <<"{", "\"", "e", "r", "r", "o", "r", "\"", ":", "f", "a", "l", "s", "e", ",", " ", "\"", "m", "e", "s", "s", "a", "g", "e", "\"", ":", "\"", "x", "\"", "}">>
TextErrorNullMessageEmpty == <<"{", "\"", "e", "r", "r", "o", "r", "\"", ":", "n", "u", "l", "l", ",", "\"", "m", "e", "s", "s", "a", "g", "e", "\"", ":", "\"", "\"", "}">>
TextMessageTwice == <<"{", "\"", "m", "e", "s", "s", "a", "g", "e", "\"", ":", "\"", "x", "\"", ",", "\"", "m", "e", "s", "s", "a", "g", "e", "\"", ":", "\"", "\"", "}">>
TextErrorObject == <<"{", "\"", "e", "r", "r", "o", "r", "\"", ":", "{", "}", "}">>
TextArray == <<"[", "\"", "e", "r", "r", "o", "r", "\"", "]">>
TextString == <<"\"", "m", "e", "s", "s", "a", "g", "e", "\"">>
TextNumber == <<"4", "0", "0">>
TextUnclosed == <<"{", "\"", "m", "e", "s", "s", "a", "g", "e", "\"", ":", "\"", "x", "\"">>
TextTrailing == <<"{", "\"", "e", "r", "r", "o", "r", "\"", ":", "\"", "x", "\"", "}", "x">>

\* length of the longest body of the model
LongBodyLength == 1000

\* a text of n letters whose i-th letter depends on i
Letters == <<"a", "b", "c", "d", "e", "f", "g">>
LongText(n) == [i \in 1..n |-> Letters[(i % Len(Letters)) + 1]]

JsonTexts ==
    { TextNullLiteral, TextEmptyObject, TextOkTrue, TextMessage, TextMessageEmpty,
      TextError, TextErrorZero, TextErrorFalseMessage, TextErrorNullMessageEmpty,
      TextMessageTwice, TextErrorObject, TextArray, TextString, TextNumber }

MalformedTexts ==
    { TextNotJson, TextOk, TextUnclosed, TextTrailing,
      LongText(LOG_BODY_PREVIEW_LENGTH - 1), LongText(LOG_BODY_PREVIEW_LENGTH),
      LongText(LOG_BODY_PREVIEW_LENGTH + 1), LongText(LongBodyLength) }

TestNames == {"User Login", "Create Contact"}

\* every combination of the field values below, one call per run
WideStatuses ==
    { Undefined, Num(HTTP_STATUS_OK), Num(HTTP_STATUS_CREATED),
      Num(HTTP_STATUS_BAD_REQUEST), Num(HTTP_STATUS_NOT_FOUND) }
WideExpected ==
    { Undefined, Num(HTTP_STATUS_OK), Num(HTTP_STATUS_CREATED), Num(HTTP_STATUS_BAD_REQUEST) }
WideTimings ==
    { Undefined, Timings(Undefined) }
    \cup { Timings(Num(d)) : d \in { 0, 120, MAX_RESPONSE_TIME_MS - 1, MAX_RESPONSE_TIME_MS,
                                     MAX_RESPONSE_TIME_MS + 1, 900 } }
WideBodies == { Null, Str(<<>>) } \cup { Str(s) : s \in JsonTexts \cup MalformedTexts }
WideResponses ==
    { Response(st, tm, b) : st \in WideStatuses, tm \in WideTimings, b \in WideBodies }

\* the responses of the runs of several calls
Statuses == { Num(HTTP_STATUS_OK), Num(HTTP_STATUS_BAD_REQUEST) }
Expected == { Undefined }
TimingsSet == { Undefined, Timings(Num(120)), Timings(Num(MAX_RESPONSE_TIME_MS)) }
Bodies == { Null, Str(<<>>), Str(TextNotJson), Str(TextMessage) }
Responses == { Response(st, tm, b) : st \in Statuses, tm \in TimingsSet, b \in Bodies }

(***************************************************************************)
(* The run.                                                                *)
(***************************************************************************)
NoCall == CallRecord("none", Response(Undefined, Undefined, Null), "", Undefined, FALSE, FALSE)

VUs == 1..NumVUs

\* the locals of a virtual user that is not inside validateResponse
NoCur == [response |-> Response(Undefined, Undefined, Null), testName |-> "",
          expectedStatus |-> Undefined, success |-> FALSE]

\* the metrics and the console of the legacy helpers module before any call
LegacyInit ==
    [errorRate |-> <<>>, successRate |-> <<>>, apiDuration |-> <<>>,
     failedRequests |-> 0, console |-> <<>>, raised |-> FALSE, result |-> FALSE]

\* no helper or iteration is running; no function has been applied
NoFlow == [at |-> "idle"]
NoPure == [op |-> "none"]

Init ==
    /\ errorRate = <<>>
    /\ successRate = <<>>
    /\ apiDuration = <<>>
    /\ failedRequests = 0
    /\ console = <<>>
    /\ checkResults = <<>>
    /\ call = NoCall
    /\ ncalls = 0
    /\ pc = [vu \in VUs |-> "idle"]
    /\ cur = [vu \in VUs |-> NoCur]
    /\ trace = [vu \in VUs |-> <<>>]
    /\ calls = EmptyBag
    /\ legacy = LegacyInit
    /\ requests = <<>>
    /\ flow = NoFlow
    /\ pure = NoPure

CallValidateResponse ==
    /\ ncalls < MaxCalls
    /\ \E r \in Responses, n \in TestNames, e \in Expected : ValidateResponse(r, n, e)
    /\ UNCHANGED <<vuVars, legacy, appVars>>

CallValidateErrorResponse ==
    /\ ncalls < MaxCalls
    /\ \E r \in Responses, n \in TestNames, e \in Expected : ValidateErrorResponse(r, n, e)
    /\ UNCHANGED <<vuVars, legacy, appVars>>

Next == CallValidateResponse \/ CallValidateErrorResponse

Spec == Init /\ [][Next]_vars

\* one call on any response of WideResponses
OnceValidateResponse ==
    /\ ncalls = 0
    /\ \E r \in WideResponses, n \in TestNames, e \in WideExpected : ValidateResponse(r, n, e)
    /\ UNCHANGED <<vuVars, legacy, appVars>>

OnceValidateErrorResponse ==
    /\ ncalls = 0
    /\ \E r \in WideResponses, n \in TestNames, e \in WideExpected : ValidateErrorResponse(r, n, e)
    /\ UNCHANGED <<vuVars, legacy, appVars>>

NextOnce == OnceValidateResponse \/ OnceValidateErrorResponse

SpecOnce == Init /\ [][NextOnce]_vars

(***************************************************************************)
(* The recorder called directly, by a caller that bypasses the validator.  *)
(***************************************************************************)
RecorderCall(op, arg) == [op |-> op, arg |-> arg, raised |-> FALSE]

\* durations a caller records directly
DirectDurations == { 120, MAX_RESPONSE_TIME_MS }

CallRecordError ==
    /\ ncalls < MaxCalls
    /\ \E b \in BOOLEAN :
          /\ errorRate' = RecordError(b)
          /\ call' = RecorderCall("recordError", Bool(b))
    /\ ncalls' = ncalls + 1
    /\ UNCHANGED <<successRate, apiDuration, failedRequests, console, checkResults,
                   vuVars, legacy, appVars>>

CallRecordSuccess ==
    /\ ncalls < MaxCalls
    /\ \E b \in BOOLEAN :
          /\ successRate' = RecordSuccess(b)
          /\ call' = RecorderCall("recordSuccess", Bool(b))
    /\ ncalls' = ncalls + 1
    /\ UNCHANGED <<errorRate, apiDuration, failedRequests, console, checkResults,
                   vuVars, legacy, appVars>>

CallRecordApiDuration ==
    /\ ncalls < MaxCalls
    /\ \E d \in DirectDurations :
          /\ apiDuration' = RecordApiDuration(Num(d))
          /\ call' = RecorderCall("recordApiDuration", Num(d))
    /\ ncalls' = ncalls + 1
    /\ UNCHANGED <<errorRate, successRate, failedRequests, console, checkResults,
                   vuVars, legacy, appVars>>

CallIncrementFailedRequests ==
    /\ ncalls < MaxCalls
    /\ failedRequests' = IncrementFailedRequests
    /\ call' = RecorderCall("incrementFailedRequests", Undefined)
    /\ ncalls' = ncalls + 1
    /\ UNCHANGED <<errorRate, successRate, apiDuration, console, checkResults,
                   vuVars, legacy, appVars>>

\* runs that mix validator calls with direct recorder calls
NextRecorder ==
    \/ CallValidateResponse
    \/ CallValidateErrorResponse
    \/ CallRecordError
    \/ CallRecordSuccess
    \/ CallRecordApiDuration
    \/ CallIncrementFailedRequests

SpecRecorder == Init /\ [][NextRecorder]_vars

(***************************************************************************)
(* A caller that hands each response to the refactored validator and to    *)
(* the legacy helper of the same role, side by side.                       *)
(***************************************************************************)
PairTimings == { Undefined, Timings(Undefined), Timings(Num(120)),
                 Timings(Num(MAX_RESPONSE_TIME_MS)) }
PairBodies == { Null, Str(<<>>), Str(TextMessage), Str(TextErrorZero) }
PairTestNames == { "User Login" }
PairExpected == { Undefined, Num(HTTP_STATUS_BAD_REQUEST) }
PairResponses == { Response(st, tm, b) : st \in Statuses, tm \in PairTimings, b \in PairBodies }

PairValidateResponse ==
    /\ ncalls < MaxCalls
    /\ \E r \in PairResponses, n \in PairTestNames, e \in PairExpected :
          /\ ValidateResponse(r, n, e)
          /\ legacy' = CheckResponse(legacy, r, n, e)
    /\ UNCHANGED <<vuVars, appVars>>

PairValidateErrorResponse ==
    /\ ncalls < MaxCalls
    /\ \E r \in PairResponses, n \in PairTestNames, e \in PairExpected :
          /\ ValidateErrorResponse(r, n, e)
          /\ legacy' = CheckErrorResponse(legacy, r, n, e)
    /\ UNCHANGED <<vuVars, appVars>>

NextLegacy == PairValidateResponse \/ PairValidateErrorResponse

SpecLegacy == Init /\ [][NextLegacy]_vars

(***************************************************************************)
(* Virtual users.  Each VU is a caller of its own: it receives a response, *)
(* and either drops it or hands it to validateResponse, whose statements   *)
(* then run one at a time, interleaved with the statements of the other    *)
(* VUs.  pc[vu] is the statement the VU is at, cur[vu] the arguments and   *)
(* the local `success` of its call, trace[vu] what the call has done so    *)
(* far, calls the bag of the arguments of the calls that have ended.       *)
(***************************************************************************)
VUResponses ==
    { Response(Num(HTTP_STATUS_OK), Timings(Num(120)), Str(TextOk)),
      Response(Num(HTTP_STATUS_BAD_REQUEST), Timings(Num(120)), Str(TextMessage)),
      Response(Num(HTTP_STATUS_OK), Timings(Num(MAX_RESPONSE_TIME_MS)), Null),
      Response(Num(HTTP_STATUS_OK), Timings(Undefined), Str(TextOk)),
      Response(Num(HTTP_STATUS_OK), Undefined, Str(TextOk)) }
VUTestNames == { "User Login" }

Arguments(c) == [response |-> c.response, testName |-> c.testName,
                 expectedStatus |-> c.expectedStatus]

\* the calls that have been received and have not ended
InFlight == Cardinality({ vu \in VUs : pc[vu] # "idle" })

\* mutant: the two rate samples are recorded in the other order
AfterStatementRatesSwapped(at, success) ==
    CASE at = "check" -> "recordSuccess"
      [] at = "recordSuccess" -> "recordError"
      [] at = "recordError" -> "recordApiDuration"
      [] at = "recordApiDuration" -> IF success THEN "return" ELSE "incrementFailedRequests"
      [] at = "incrementFailedRequests" -> "logFailure"
      [] OTHER -> "return"

\* the statement that follows statement `at` of validateResponse
AfterStatement(at, success) ==
    CASE at = "check" -> "recordError"
      [] at = "recordError" -> "recordSuccess"
      [] at = "recordSuccess" -> "recordApiDuration"
      [] at = "recordApiDuration" -> IF success THEN "return" ELSE "incrementFailedRequests"
      [] at = "incrementFailedRequests" -> "logFailure"
      [] OTHER -> "return"

\* the VU moves on from statement `at`, which is added to the trace of its call
Advance(vu, at) ==
    /\ pc' = [pc EXCEPT ![vu] = AfterStatement(at, cur[vu].success)]
    /\ trace' = [trace EXCEPT ![vu] = Append(@, at)]
    /\ UNCHANGED <<cur, calls, call, ncalls, checkResults, legacy, appVars>>

\* the call of the VU ends, by a return or by a TypeError
EndCall(vu, raised) ==
    /\ pc' = [pc EXCEPT ![vu] = "idle"]
    /\ calls' = calls (+) SetToBag({Arguments(cur[vu])})
    /\ call' = CallRecord("validateResponse", cur[vu].response, cur[vu].testName,
                          cur[vu].expectedStatus, raised, ~raised /\ cur[vu].success)
    /\ ncalls' = ncalls + 1

\* an HTTP response arrives at the VU
Receive(vu) ==
    /\ pc[vu] = "idle"
    /\ ncalls + InFlight < MaxCalls
    /\ \E r \in VUResponses, n \in VUTestNames, e \in Expected :
          cur' = [cur EXCEPT ![vu] = [response |-> r, testName |-> n,
                                      expectedStatus |-> e, success |-> FALSE]]
    /\ pc' = [pc EXCEPT ![vu] = "received"]
    /\ trace' = [trace EXCEPT ![vu] = <<>>]
    /\ UNCHANGED <<errorRate, successRate, apiDuration, failedRequests, console,
                   checkResults, call, ncalls, calls, legacy, appVars>>

\* the caller gives the response up without validating it
Abandon(vu) ==
    /\ pc[vu] = "received"
    /\ pc' = [pc EXCEPT ![vu] = "idle"]
    /\ cur' = [cur EXCEPT ![vu] = NoCur]
    /\ UNCHANGED <<errorRate, successRate, apiDuration, failedRequests, console,
                   checkResults, call, ncalls, trace, calls, legacy, appVars>>

\* validateResponse is entered: const success = check(response, checks)
Invoke(vu) ==
    /\ pc[vu] = "received"
    /\ LET c == cur[vu]
           expectedStatus == DefaultTo(c.expectedStatus, Num(HTTP_STATUS_OK))
           res == K6Check(ResponseChecks(c.response, c.testName, expectedStatus))
       IN  /\ checkResults' = res.reported
           /\ trace' = [trace EXCEPT ![vu] = [i \in DOMAIN res.reported |->
                                                  res.reported[i].name.label]]
           /\ IF res.raised
              THEN /\ EndCall(vu, TRUE)
                   /\ UNCHANGED cur
              ELSE /\ cur' = [cur EXCEPT ![vu].success = res.success]
                   /\ pc' = [pc EXCEPT ![vu] = AfterStatement("check", res.success)]
                   /\ UNCHANGED <<call, ncalls, calls>>
    /\ UNCHANGED <<errorRate, successRate, apiDuration, failedRequests, console, legacy, appVars>>

\* MetricsService.recordError(!success)
StepRecordError(vu) ==
    /\ pc[vu] = "recordError"
    /\ errorRate' = RecordError(~cur[vu].success)
    /\ Advance(vu, "recordError")
    /\ UNCHANGED <<successRate, apiDuration, failedRequests, console>>

\* MetricsService.recordSuccess(success)
StepRecordSuccess(vu) ==
    /\ pc[vu] = "recordSuccess"
    /\ successRate' = RecordSuccess(cur[vu].success)
    /\ Advance(vu, "recordSuccess")
    /\ UNCHANGED <<errorRate, apiDuration, failedRequests, console>>

\* MetricsService.recordApiDuration(response.timings.duration)
StepRecordApiDuration(vu) ==
    /\ pc[vu] = "recordApiDuration"
    /\ IF PropThrows(cur[vu].response.timings)
       THEN /\ EndCall(vu, TRUE)
            /\ UNCHANGED <<apiDuration, cur, trace, checkResults, legacy, appVars>>
       ELSE /\ apiDuration' = RecordApiDuration(cur[vu].response.timings.duration)
            /\ Advance(vu, "recordApiDuration")
    /\ UNCHANGED <<errorRate, successRate, failedRequests, console>>

\* MetricsService.incrementFailedRequests()
StepIncrementFailedRequests(vu) ==
    /\ pc[vu] = "incrementFailedRequests"
    /\ failedRequests' = IncrementFailedRequests
    /\ Advance(vu, "incrementFailedRequests")
    /\ UNCHANGED <<errorRate, successRate, apiDuration, console>>

\* this.logFailure(testName, response)
StepLogFailure(vu) ==
    /\ pc[vu] = "logFailure"
    /\ console' = LogFailure(cur[vu].testName, cur[vu].response)
    /\ Advance(vu, "logFailure")
    /\ UNCHANGED <<errorRate, successRate, apiDuration, failedRequests>>

\* return success
StepReturn(vu) ==
    /\ pc[vu] = "return"
    /\ EndCall(vu, FALSE)
    /\ UNCHANGED <<errorRate, successRate, apiDuration, failedRequests, console,
                   checkResults, cur, trace, legacy, appVars>>

VUReceive == \E vu \in VUs : Receive(vu)
VUAbandon == \E vu \in VUs : Abandon(vu)
VUInvoke == \E vu \in VUs : Invoke(vu)
VURecordError == \E vu \in VUs : StepRecordError(vu)
VURecordSuccess == \E vu \in VUs : StepRecordSuccess(vu)
VURecordApiDuration == \E vu \in VUs : StepRecordApiDuration(vu)
VUIncrementFailedRequests == \E vu \in VUs : StepIncrementFailedRequests(vu)
VULogFailure == \E vu \in VUs : StepLogFailure(vu)
VUReturn == \E vu \in VUs : StepReturn(vu)

NextVU ==
    \/ VUReceive
    \/ VUAbandon
    \/ VUInvoke
    \/ VURecordError
    \/ VURecordSuccess
    \/ VURecordApiDuration
    \/ VUIncrementFailedRequests
    \/ VULogFailure
    \/ VUReturn

SpecVU == Init /\ [][NextVU]_vars

(***************************************************************************)
(* The report generator: calculateStats(values).  Durations are whole      *)
(* numbers here; avg, a quotient, is kept as the pair [sum, count].        *)
(***************************************************************************)
\* values.slice().sort((a, b) => a - b): the ascending numeric sort, whose
\* k-th element is the value with fewer than k smaller elements and at least
\* k elements not above it
SortAscending(values) ==
    [k \in 1..Len(values) |->
        CHOOSE v \in { values[i] : i \in DOMAIN values } :
            /\ Cardinality({ i \in DOMAIN values : values[i] < v }) < k
            /\ k <= Cardinality({ i \in DOMAIN values : values[i] <= v })]

\* sorted.reduce((a, b) => a + b, 0)
RECURSIVE SumFrom(_, _, _)
SumFrom(values, i, acc) ==
    IF i > Len(values) THEN acc ELSE SumFrom(values, i + 1, acc + values[i])
SumOf(values) == SumFrom(values, 1, 0)

\* Math.floor(length * 0.95) and Math.floor(length * 0.99): the double product
\* rounds to the whole number whenever the exact product is one, so the floor
\* is that of the exact product
Floor95(n) == (n * 95) \div 100
Floor99(n) == (n * 99) \div 100

\* sorted[i] for a 0-based index i; undefined outside the array
ElementAt(sorted, i) == IF i + 1 \in DOMAIN sorted THEN Num(sorted[i + 1]) ELSE Undefined

\* sorted[i] || sorted[sorted.length - 1] || 0
Percentile(sorted, i) ==
    JsOr(JsOr(ElementAt(sorted, i), ElementAt(sorted, Len(sorted) - 1)), Num(0)).n

ZeroStats == [min |-> 0, max |-> 0, avg |-> [sum |-> 0, count |-> 1], p95 |-> 0, p99 |-> 0]

\* values is undefined or an array of numbers
CalculateStats(values) ==
    IF values = Undefined \/ Len(values.items) = 0
    THEN ZeroStats
    ELSE LET sorted == SortAscending(values.items)
             sum == SumOf(sorted)
         IN  [min |-> sorted[1],
              max |-> sorted[Len(sorted)],
              avg |-> [sum |-> sum, count |-> Len(sorted)],
              p95 |-> Percentile(sorted, Floor95(Len(sorted))),
              p99 |-> Percentile(sorted, Floor99(Len(sorted)))]

\* the lists given to calculateStats: every list of up to MaxStatsLen
\* durations, and long lists of n durations made of runs of equal values
MaxStatsLen == 4
StatsDurations == { 0, 3, 5 }
RECURSIVE ListsUpTo(_)
ListsUpTo(n) ==
    IF n = 0 THEN { <<>> }
    ELSE LET shorter == ListsUpTo(n - 1)
         IN  shorter \cup { Append(l, d) : l \in { m \in shorter : Len(m) = n - 1 },
                                           d \in StatsDurations }
Run(d, n) == [i \in 1..n |-> d]
LongListLengths == { 20, 21, 100, 101 }
LongLists ==
    { Run(5, b) \o Run(3, a) \o Run(0, n - a - b) : n \in LongListLengths,
                                                     a \in 0..2, b \in 0..2 }
StatsInputs == { Undefined } \cup { Arr(l) : l \in ListsUpTo(MaxStatsLen) \cup LongLists }

ApplyCalculateStats ==
    /\ pure.op = "none"
    /\ \E values \in StatsInputs :
          pure' = [op |-> "calculateStats", arg |-> values, result |-> CalculateStats(values)]
    /\ UNCHANGED <<errorRate, successRate, apiDuration, failedRequests, console,
                   checkResults, call, ncalls, vuVars, legacy, requests, flow>>

NextStats == ApplyCalculateStats

SpecStats == Init /\ [][NextStats]_vars

(***************************************************************************)
(* Configuration: getEnvironment() of environments.ts and the module       *)
(* config.ts, which reads ENVIRONMENT and TEST_TYPE when it is loaded; the  *)
(* test module then picks its scenario by TEST_TYPE.                        *)
(***************************************************************************)
NameProduction == <<"p", "r", "o", "d", "u", "c", "t", "i", "o", "n">>
NameStaging == <<"s", "t", "a", "g", "i", "n", "g">>
NameQa == <<"q", "a">>
NameDevelopment == <<"d", "e", "v", "e", "l", "o", "p", "m", "e", "n", "t">>
NameConstructor == <<"c", "o", "n", "s", "t", "r", "u", "c", "t", "o", "r">>
NameProto == <<"_", "_", "p", "r", "o", "t", "o", "_", "_">>
TypeSmoke == <<"s", "m", "o", "k", "e">>
TypeLoad == <<"l", "o", "a", "d">>
TypeStress == <<"s", "t", "r", "e", "s", "s">>
TypeSpike == <<"s", "p", "i", "k", "e">>

UpperCase == <<"A", "B", "C", "D", "E", "F", "G", "H", "I", "J", "K", "L", "M",
               "N", "O", "P", "Q", "R", "S", "T", "U", "V", "W", "X", "Y", "Z">>
LowerCase == <<"a", "b", "c", "d", "e", "f", "g", "h", "i", "j", "k", "l", "m",
               "n", "o", "p", "q", "r", "s", "t", "u", "v", "w", "x", "y", "z">>

\* s.toLowerCase()
ToLowerCase(s) ==
    [i \in DOMAIN s |->
        IF \E k \in DOMAIN UpperCase : UpperCase[k] = s[i]
        THEN LowerCase[CHOOSE k \in DOMAIN UpperCase : UpperCase[k] = s[i]]
        ELSE s[i]]

\* the entries of `environments`: name and thresholds
EnvConfig(name, p95, p99) == [t |-> "object", name |-> name, responseTime95 |-> p95,
                              responseTime99 |-> p99]
Environments ==
    << [key |-> NameProduction, val |-> EnvConfig("Production", 500, 1000)],
       [key |-> NameStaging, val |-> EnvConfig("Staging", 800, 1500)],
       [key |-> NameQa, val |-> EnvConfig("QA", 1000, 2000)],
       [key |-> NameDevelopment, val |-> EnvConfig("Development", 2000, 5000)] >>

\* the properties every object literal inherits from Object.prototype; their
\* values are functions or objects, all truthy
InheritedKeys ==
    { NameConstructor, NameProto,
      <<"t", "o", "S", "t", "r", "i", "n", "g">>,
      <<"v", "a", "l", "u", "e", "O", "f">>,
      <<"h", "a", "s", "O", "w", "n", "P", "r", "o", "p", "e", "r", "t", "y">> }
Inherited(key) == [t |-> "inherited", key |-> key]

\* obj[key] on an object literal: an own property, else an inherited one,
\* else undefined
Index(members, key) ==
    IF \E i \in DOMAIN members : members[i].key = key
    THEN Lookup(members, key, Len(members))
    ELSE IF key \in InheritedKeys THEN Inherited(key)
    ELSE Undefined

\* __ENV.X || fallback: an unset or empty variable takes the fallback
EnvOr(value, fallback) == IF Truthy(value) THEN value.s ELSE fallback

\* getEnvironment(): the configuration returned and the console lines written
GetEnvironment(environment) ==
    LET envName == EnvOr(environment, NameProduction)
        env == Index(Environments, ToLowerCase(envName))
    IN  IF ~Truthy(env)
        THEN [config |-> Index(Environments, NameProduction),
              lines |-> << [stream |-> "warn", unknown |-> envName] >>]
        ELSE [config |-> env,
              lines |-> << [stream |-> "log", unknown |-> <<>>],
                           [stream |-> "log", unknown |-> <<>>] >>]

\* getRequestRateThreshold(testType), as the text put after `rate>`
GetRequestRateThreshold(testType) ==
    CASE testType = TypeSmoke -> "0.5"
      [] testType = TypeLoad -> "10"
      [] testType = TypeStress -> "20"
      [] testType = TypeSpike -> "15"
      [] OTHER -> "1"

\* config.scenarios, each scenario by its executor and peak of virtual users
Scenario(name, executor, peak) == [t |-> "object", name |-> name, executor |-> executor,
                                   peak |-> peak]
Scenarios ==
    << [key |-> TypeSmoke, val |-> Scenario("smoke", "constant-vus", 1)],
       [key |-> TypeLoad, val |-> Scenario("load", "ramping-vus", 10)],
       [key |-> TypeStress, val |-> Scenario("stress", "ramping-vus", 30)],
       [key |-> TypeSpike, val |-> Scenario("spike", "ramping-vus", 50)] >>

\* (config.scenarios as any)[TEST_TYPE] || config.scenarios.smoke
SelectScenario(testType) ==
    JsOr(Index(Scenarios, testType), Index(Scenarios, TypeSmoke))

EnvironmentValues ==
    { Undefined, Str(<<>>),
      Str(<<"p", "r", "o", "d", "u", "c", "t", "i", "o", "n">>),
      Str(<<"P", "r", "o", "d", "u", "c", "t", "i", "o", "n">>),
      Str(<<"P", "R", "O", "D", "U", "C", "T", "I", "O", "N">>),
      Str(<<"p", "R", "o", "D", "u", "C", "t", "I", "o", "N">>),
      Str(<<"s", "t", "a", "g", "i", "n", "g">>),
      Str(<<"S", "t", "a", "g", "i", "n", "g">>),
      Str(<<"S", "T", "A", "G", "I", "N", "G">>),
      Str(<<"q", "a">>),
      Str(<<"Q", "A">>),
      Str(<<"Q", "a">>),
      Str(<<"d", "e", "v", "e", "l", "o", "p", "m", "e", "n", "t">>),
      Str(<<"D", "e", "v", "e", "l", "o", "p", "m", "e", "n", "t">>),
      Str(<<"D", "E", "V", "E", "L", "O", "P", "M", "E", "N", "T">>),
      Str(<<"p", "r", "o", "d">>),
      Str(<<"t", "e", "s", "t">>),
      Str(<<"l", "o", "c", "a", "l">>),
      Str(<<"c", "o", "n", "s", "t", "r", "u", "c", "t", "o", "r">>),
      Str(<<"C", "o", "n", "s", "t", "r", "u", "c", "t", "o", "r">>),
      Str(<<"_", "_", "p", "r", "o", "t", "o", "_", "_">>),
      Str(<<"t", "o", "S", "t", "r", "i", "n", "g">>) }
TestTypeValues ==
    { Undefined, Str(<<>>),
      Str(<<"s", "m", "o", "k", "e">>),
      Str(<<"l", "o", "a", "d">>),
      Str(<<"s", "t", "r", "e", "s", "s">>),
      Str(<<"s", "p", "i", "k", "e">>),
      Str(<<"s", "o", "a", "k">>),
      Str(<<"S", "M", "O", "K", "E">>),
      Str(<<"L", "o", "a", "d">>),
      Str(<<"c", "o", "n", "s", "t", "r", "u", "c", "t", "o", "r">>) }

\* the test is started with ENVIRONMENT and TEST_TYPE set, empty or unset
LoadConfiguration ==
    /\ pure.op = "none"
    /\ \E environment \in EnvironmentValues, testTypeVar \in TestTypeValues :
          LET got == GetEnvironment(environment)
              testType == EnvOr(testTypeVar, TypeSmoke)
          IN  /\ pure' = [op |-> "configuration",
                          ENVIRONMENT |-> environment, TEST_TYPE |-> testTypeVar,
                          env |-> got.config,
                          httpReqsRate |-> GetRequestRateThreshold(testType),
                          scenario |-> SelectScenario(testType)]
              /\ console' = console \o got.lines
    /\ UNCHANGED <<errorRate, successRate, apiDuration, failedRequests,
                   checkResults, call, ncalls, vuVars, legacy, requests, flow>>

NextConfig == LoadConfiguration

SpecConfig == Init /\ [][NextConfig]_vars

(***************************************************************************)
(* HttpService: the request each method hands to k6's http module.  A      *)
(* request is [method, url, headers, body]; headers is the list of the     *)
(* [key, val] members of the headers object.                               *)
(***************************************************************************)
HEADER_CONTENT_TYPE == "Content-Type"
HEADER_AUTHORIZATION == "Authorization"
CONTENT_TYPE_JSON == <<"a", "p", "p", "l", "i", "c", "a", "t", "i", "o", "n", "/", "j", "s", "o", "n">>
BearerPrefix == <<"B", "e", "a", "r", "e", "r", " ">>

GetStandardHeaders == << [key |-> HEADER_CONTENT_TYPE, val |-> CONTENT_TYPE_JSON] >>

\* { ...this.getStandardHeaders(), [AUTHORIZATION]: `Bearer ${token}` }
GetAuthHeaders(token) ==
    GetStandardHeaders \o << [key |-> HEADER_AUTHORIZATION, val |-> BearerPrefix \o ToStr(token)] >>

\* mutant: any token that is not undefined is sent, the empty one too
HeadersForDefined(token) ==
    IF token # Undefined THEN GetAuthHeaders(token) ELSE GetStandardHeaders

\* token ? this.getAuthHeaders(token) : this.getStandardHeaders()
HeadersFor(token) == IF Truthy(token) THEN GetAuthHeaders(token) ELSE GetStandardHeaders

\* JSON.stringify(payload), kept as the payload it encodes
JsonStringify(payload) == [t |-> "json", of |-> payload]

\* the body each method sends: post sends null for a missing payload, put
\* and patch always encode, get and delete send none
BodyFor(method, payload) ==
    CASE method = "POST" -> IF Truthy(payload) THEN JsonStringify(payload) ELSE Null
      [] method \in {"PUT", "PATCH"} -> JsonStringify(payload)
      [] OTHER -> Null

HttpRequest(method, url, payload, token) ==
    [method |-> method, url |-> url, headers |-> HeadersFor(token),
     body |-> BodyFor(method, payload)]

HttpMethods == { "GET", "POST", "PUT", "PATCH", "DELETE" }
TokenA == <<"t", "o", "k", "A">>
TokenB == <<"t", "o", "k", "B">>
SuppliedTokens == { Undefined, Str(<<>>), Str(TokenA), Str(TokenB) }
Payloads == { Null, Obj(<<>>) }

\* a caller sends one request through HttpService
SendRequest ==
    /\ Len(requests) < MaxCalls
    /\ \E method \in HttpMethods, token \in SuppliedTokens, payload \in Payloads :
          /\ requests' = Append(requests, HttpRequest(method, "/contacts", payload, token))
          /\ pure' = [op |-> "http", method |-> method, token |-> token, payload |-> payload]
    /\ UNCHANGED <<errorRate, successRate, apiDuration, failedRequests, console,
                   checkResults, call, ncalls, vuVars, legacy, flow>>

NextHttp == SendRequest

SpecHttp == Init /\ [][NextHttp]_vars

(***************************************************************************)
(* The API clients and the helpers built on them (UserAPI, ContactAPI,     *)
(* AuthHelper, ContactHelper).  A helper sends a request through           *)
(* HttpService, receives the answer of the server and hands it to          *)
(* validateResponse; requests is the log of the requests sent, and         *)
(* flow.answers the answers received, in the same order.  An answer comes  *)
(* from k6's http module and always carries timings.  flow.lines holds the *)
(* lines the helpers themselves wrote through LoggerService (console holds *)
(* the failure lines of the validator).                                    *)
(***************************************************************************)
API_USERS == "/users"
API_USERS_LOGIN == "/users/login"
API_USERS_LOGOUT == "/users/logout"
API_USERS_ME == "/users/me"
API_CONTACTS == "/contacts"

\* `${BASE_URL}${endpoint}`; id is the contact id of /contacts/<id>
Endpoint(path) == [path |-> path, id |-> Undefined]
CONTACT_BY_ID(id) == [path |-> "/contacts/", id |-> id]

KeyToken == <<"t", "o", "k", "e", "n">>
KeyUser == <<"u", "s", "e", "r">>
KeyId == <<"_", "i", "d">>
KeyEmail == <<"e", "m", "a", "i", "l">>
KeyPassword == <<"p", "a", "s", "s", "w", "o", "r", "d">>

\* UserAPI
Register(userData) == HttpRequest("POST", Endpoint(API_USERS), userData, Undefined)
Login(email, password) ==
    HttpRequest("POST", Endpoint(API_USERS_LOGIN),
                Obj(<< [key |-> KeyEmail, val |-> email], [key |-> KeyPassword, val |-> password] >>),
                Undefined)
GetProfile(token) == HttpRequest("GET", Endpoint(API_USERS_ME), Undefined, token)
UpdateProfile(token, userData) == HttpRequest("PATCH", Endpoint(API_USERS_ME), userData, token)
Logout(token) == HttpRequest("POST", Endpoint(API_USERS_LOGOUT), Null, token)

\* ContactAPI
ContactGetAll(token) == HttpRequest("GET", Endpoint(API_CONTACTS), Undefined, token)
ContactGetById(token, contactId) == HttpRequest("GET", CONTACT_BY_ID(contactId), Undefined, token)
ContactCreate(token, contactData) == HttpRequest("POST", Endpoint(API_CONTACTS), contactData, token)
ContactUpdate(token, contactId, contactData) ==
    HttpRequest("PUT", CONTACT_BY_ID(contactId), contactData, token)
ContactPartialUpdate(token, contactId, contactData) ==
    HttpRequest("PATCH", CONTACT_BY_ID(contactId), contactData, token)
ContactDelete(token, contactId) == HttpRequest("DELETE", CONTACT_BY_ID(contactId), Undefined, token)

\* a line a helper writes through LoggerService: error goes to console.error,
\* warn to console.warn, test, success and info to console.log; detail is
\* the value interpolated into the message, if any
LoggerLine(stream, message, detail) == [stream |-> stream, message |-> message, detail |-> detail]

(***************************************************************************)
(* The answers of the server.                                              *)
(***************************************************************************)
\* the longest duration that passes the latency check
FastDuration == MAX_RESPONSE_TIME_MS - 1
TextAuth == <<"{", "\"", "t", "o", "k", "e", "n", "\"", ":", "\"", "t", "o", "k", "A", "\"", ",", "\"", "u", "s", "e", "r", "\"", ":", "{", "\"", "_", "i", "d", "\"", ":", "\"", "u", "1", "\"", "}", "}">>
TextTokenOnly == <<"{", "\"", "t", "o", "k", "e", "n", "\"", ":", "\"", "t", "o", "k", "A", "\"", "}">>
TextUserOnly == <<"{", "\"", "u", "s", "e", "r", "\"", ":", "{", "\"", "_", "i", "d", "\"", ":", "\"", "u", "1", "\"", "}", "}">>
TextDeleted == <<"C", "o", "n", "t", "a", "c", "t", " ", "d", "e", "l", "e", "t", "e", "d">>
TextNoContacts == <<"[", "]">>

\* the id the server gives to the n-th contact it creates, and the body
\* that carries it
IdDigits == <<"1", "2", "3", "4", "5", "6", "7", "8", "9">>
ContactId(n) == <<"c", IdDigits[n]>>
TextContact(n) == <<"{", "\"", "_", "i", "d", "\"", ":", "\"">> \o ContactId(n) \o <<"\"", "}">>
TextContacts(n, m) == <<"[">> \o TextContact(n) \o <<",">> \o TextContact(m) \o <<"]">>

Answer(status, duration, body) == Response(Num(status), Timings(Num(duration)), body)

AuthBodies == { Str(TextAuth), Str(TextTokenOnly), Str(TextUserOnly), Str(TextNotJson), Null }
AuthAnswers(expected) ==
    { Answer(expected, FastDuration, b) : b \in AuthBodies }
      \cup { Answer(expected, MAX_RESPONSE_TIME_MS, b) : b \in AuthBodies }
      \cup { Answer(HTTP_STATUS_BAD_REQUEST, FastDuration, b) : b \in AuthBodies }

CreateAnswers(n) ==
    { Answer(HTTP_STATUS_CREATED, FastDuration, Str(TextContact(n))),
      Answer(HTTP_STATUS_CREATED, MAX_RESPONSE_TIME_MS, Str(TextContact(n))),
      Answer(HTTP_STATUS_BAD_REQUEST, FastDuration, Str(TextMessage)),
      Answer(HTTP_STATUS_CREATED, FastDuration, Str(TextEmptyObject)),
      Answer(HTTP_STATUS_CREATED, FastDuration, Str(TextNotJson)) }

DeleteAnswers ==
    { Answer(HTTP_STATUS_OK, FastDuration, Str(TextDeleted)),
      Answer(HTTP_STATUS_OK, MAX_RESPONSE_TIME_MS, Str(TextDeleted)),
      Answer(HTTP_STATUS_NOT_FOUND, FastDuration, Null) }

GetAllAnswers ==
    { Answer(HTTP_STATUS_OK, FastDuration, Str(TextContacts(1, 2))),
      Answer(HTTP_STATUS_OK, FastDuration, Str(TextContacts(2, 2))),
      Answer(HTTP_STATUS_OK, FastDuration, Str(TextNoContacts)),
      Answer(HTTP_STATUS_OK, MAX_RESPONSE_TIME_MS, Str(TextContacts(1, 2))),
      Answer(HTTP_STATUS_BAD_REQUEST, FastDuration, Str(TextMessage)),
      Answer(HTTP_STATUS_OK, FastDuration, Str(TextEmptyObject)),
      Answer(HTTP_STATUS_OK, FastDuration, Str(TextNullLiteral)),
      Answer(HTTP_STATUS_OK, FastDuration, Str(TextNotJson)) }

TextAuthAgain == <<"{", "\"", "t", "o", "k", "e", "n", "\"", ":", "\"", "t", "o", "k", "B", "\"", ",", "\"", "u", "s", "e", "r", "\"", ":", "{", "\"", "_", "i", "d", "\"", ":", "\"", "u", "1", "\"", "}", "}">>

\* the answers an iteration meets
OkAnswer(body) == Answer(HTTP_STATUS_OK, FastDuration, body)
RegisterAnswers ==
    { Answer(HTTP_STATUS_CREATED, FastDuration, Str(TextAuth)),
      Answer(HTTP_STATUS_CREATED, FastDuration, Str(TextTokenOnly)),
      Answer(HTTP_STATUS_CREATED, FastDuration, Str(TextUserOnly)),
      Answer(HTTP_STATUS_CREATED, MAX_RESPONSE_TIME_MS, Str(TextAuth)),
      Answer(HTTP_STATUS_BAD_REQUEST, FastDuration, Str(TextMessage)) }
LoginAnswers ==
    { OkAnswer(Str(TextAuthAgain)), Answer(HTTP_STATUS_BAD_REQUEST, FastDuration, Str(TextMessage)) }
ContactAnswers(n) ==
    { Answer(HTTP_STATUS_CREATED, FastDuration, Str(TextContact(n))),
      Answer(HTTP_STATUS_CREATED, MAX_RESPONSE_TIME_MS, Str(TextContact(n))),
      Answer(HTTP_STATUS_BAD_REQUEST, FastDuration, Str(TextMessage)) }
RemovalAnswers ==
    { OkAnswer(Str(TextDeleted)), Answer(HTTP_STATUS_NOT_FOUND, FastDuration, Null) }
ProfileAnswers == { OkAnswer(Str(TextUserOnly)) }
ListAnswers == { OkAnswer(Str(TextNoContacts)), OkAnswer(Str(TextNotJson)) }
LogoutAnswers == { OkAnswer(Str(TextOk)), Answer(HTTP_STATUS_BAD_REQUEST, FastDuration, Str(TextMessage)) }

\* the answers to the attempts of createMultiple and deleteMultiple: every
\* kind when a helper is called alone, the kinds above within an iteration
CreateAnswersIn(test, n) == IF test = "none" THEN CreateAnswers(n) ELSE ContactAnswers(n)
DeleteAnswersIn(test) == IF test = "none" THEN DeleteAnswers ELSE RemovalAnswers

\* HttpService.parseJsonResponse: the parsed body, or null and an error line
\* when JSON.parse throws
ParseJsonResponse(response) ==
    LET p == JsonParse(ToStr(response.body))
    IN  IF p.ok THEN [value |-> p.val, lines |-> <<>>]
        ELSE [value |-> Null,
              lines |-> << LoggerLine("error", "Failed to parse JSON response", response.body) >>]

\* DataBuilderService.buildUser / buildContact / buildPartialContact, as
\* the objects they return
TextEmail == <<"a", "@", "b", ".", "c">>
TextPassword == <<"p", "w">>
BuildUser == Obj(<< [key |-> KeyEmail, val |-> Str(TextEmail)],
                    [key |-> KeyPassword, val |-> Str(TextPassword)] >>)
BuildContact == Obj(<< [key |-> KeyEmail, val |-> Str(TextEmail)] >>)

\* the state of a helper call or of an iteration: the position, the test
\* that runs and its locals (token, userId, contactIds), the helper called
\* last, its locals, the position it returns to and its return value, the
\* answers received and the lines written
Frame ==
    [at |-> "idle", test |-> "none", token |-> Null, userId |-> Null, contactIds |-> <<>>,
     helper |-> "none", local |-> [i |-> 0], resume |-> "returned", answers |-> <<>>,
     lines |-> <<>>, raised |-> FALSE, result |-> Undefined]

(***************************************************************************)
(* AuthHelper                                                              *)
(***************************************************************************)
\* { success: false, token: null, userId: null }
AuthFailure == [success |-> FALSE, token |-> Null, userId |-> Null]

\* registerAndLogin once validateResponse has returned `validated`:
\* [raised, result, lines]; parsed is parseJsonResponse(registerResponse),
\* read where the code calls it.  responseData.user._id throws a TypeError
\* when the body carries a token and no user.
RegisterAndLoginOutcome(user, validated, parsed) ==
    IF ~validated
    THEN [raised |-> FALSE, result |-> AuthFailure,
          lines |-> << LoggerLine("error", "Failed to register user", Undefined) >>]
    ELSE LET responseData == parsed.value
         IN  IF ~Truthy(responseData) \/ ~Truthy(GetProp(responseData, KeyToken))
             THEN [raised |-> FALSE, result |-> AuthFailure,
                   lines |-> parsed.lines \o
                     << LoggerLine("error", "Registration response missing token", Undefined) >>]
             ELSE IF PropThrows(GetProp(responseData, KeyUser))
             THEN [raised |-> TRUE, result |-> Undefined, lines |-> parsed.lines]
             ELSE [raised |-> FALSE,
                   result |-> [success |-> TRUE, token |-> GetProp(responseData, KeyToken),
                               userId |-> GetProp(GetProp(responseData, KeyUser), KeyId),
                               user |-> user],
                   lines |-> << LoggerLine("log", "User registered successfully",
                                           GetProp(GetProp(responseData, KeyUser), KeyId)) >>]

\* login once validateResponse has returned `validated`; the success line
\* is written before responseData.user._id is read
LoginOutcome(validated, parsed) ==
    IF ~validated
    THEN [raised |-> FALSE, result |-> AuthFailure,
          lines |-> << LoggerLine("error", "Failed to login user", Undefined) >>]
    ELSE LET responseData == parsed.value
             logged == << LoggerLine("log", "User logged in successfully", Undefined) >>
         IN  IF ~Truthy(responseData) \/ ~Truthy(GetProp(responseData, KeyToken))
             THEN [raised |-> FALSE, result |-> AuthFailure,
                   lines |-> parsed.lines \o
                     << LoggerLine("error", "Login response missing token", Undefined) >>]
             ELSE IF PropThrows(GetProp(responseData, KeyUser))
             THEN [raised |-> TRUE, result |-> Undefined, lines |-> logged]
             ELSE [raised |-> FALSE,
                   result |-> [success |-> TRUE, token |-> GetProp(responseData, KeyToken),
                               userId |-> GetProp(GetProp(responseData, KeyUser), KeyId)],
                   lines |-> logged]

\* logout once validateResponse has returned `validated`
LogoutOutcome(validated) ==
    IF ~validated
    THEN [raised |-> FALSE, result |-> Bool(FALSE),
          lines |-> << LoggerLine("warn", "Logout failed but continuing", Undefined) >>]
    ELSE [raised |-> FALSE, result |-> Bool(TRUE),
          lines |-> << LoggerLine("log", "User logged out successfully", Undefined) >>]

(***************************************************************************)
(* ContactHelper                                                           *)
(***************************************************************************)
DEFAULT_CONTACTS_COUNT == 5

\* mutant: the id of a response that failed validation is kept
CreateOneOutcomeUnvalidated(validated, parsed) ==
    LET responseData == parsed.value
    IN  IF ~Truthy(responseData) \/ ~Truthy(GetProp(responseData, KeyId))
        THEN [value |-> Null, lines |-> parsed.lines]
        ELSE [value |-> GetProp(responseData, KeyId), lines |-> parsed.lines]

\* createOne once validateResponse has returned `validated`: the id, or null
CreateOneOutcome(validated, parsed) ==
    IF ~validated
    THEN [value |-> Null, lines |-> <<>>]
    ELSE LET responseData == parsed.value
         IN  IF ~Truthy(responseData) \/ ~Truthy(GetProp(responseData, KeyId))
             THEN [value |-> Null, lines |-> parsed.lines]
             ELSE [value |-> GetProp(responseData, KeyId), lines |-> parsed.lines]

\* createMultiple is entered: count defaults to DEFAULT_CONTACTS_COUNT
EnterCreateMultiple(f, token, countArg) ==
    LET count == DefaultTo(countArg, Num(DEFAULT_CONTACTS_COUNT)).n
    IN  [f EXCEPT !.at = "createMultiple", !.helper = "createMultiple", !.token = token,
                  !.local = [count |-> count, i |-> 0, contactIds |-> <<>>],
                  !.lines = Append(@, LoggerLine("log", "Creating multiple contacts", Num(count)))]

\* one turn of the loop of createMultiple, after createOne returned contactId
AfterCreateOne(local, contactId) ==
    [local EXCEPT !.i = @ + 1,
                  !.contactIds = IF Truthy(contactId) THEN Append(@, contactId) ELSE @]

\* the return value of createMultiple and the line it writes
CreateMultipleResult(local) ==
    LET success == Len(local.contactIds) = local.count
    IN  [result |-> [success |-> success, contactIds |-> local.contactIds,
                     count |-> Len(local.contactIds)],
         lines |-> IF success
                   THEN << LoggerLine("log", "Contact created successfully", Num(Len(local.contactIds))) >>
                   ELSE << LoggerLine("warn", "Created", Num(Len(local.contactIds))) >>]

\* Array.isArray(v)
IsArray(v) == v.t = "array"

\* getAll once validateResponse has returned `validated`: the contacts, or null
GetAllOutcome(validated, parsed) ==
    IF ~validated
    THEN [value |-> Null, lines |-> <<>>]
    ELSE LET contacts == parsed.value
         IN  IF ~Truthy(contacts) \/ ~IsArray(contacts)
             THEN [value |-> Null,
                   lines |-> parsed.lines \o
                     << LoggerLine("error", "Invalid contacts response", Undefined) >>]
             ELSE [value |-> contacts,
                   lines |-> << LoggerLine("log", "Contacts retrieved successfully",
                                           Num(Len(contacts.items))) >>]

\* deleteMultiple is entered
EnterDeleteMultiple(f, token, contactIds) ==
    [f EXCEPT !.at = "deleteMultiple", !.token = token,
              !.local = [contactIds |-> contactIds, i |-> 0, deletedCount |-> 0],
              !.lines = Append(@, LoggerLine("log", "Deleting contacts", Num(Len(contactIds))))]

\* mutant: the loop ends at the first delete that fails
AfterDeleteOneStopping(local, deleted) ==
    [local EXCEPT !.i = IF deleted THEN @ + 1 ELSE Len(local.contactIds),
                  !.deletedCount = IF deleted THEN @ + 1 ELSE @]

\* one turn of the loop of deleteMultiple, after deleteOne returned `deleted`
AfterDeleteOne(local, deleted) ==
    [local EXCEPT !.i = @ + 1, !.deletedCount = IF deleted THEN @ + 1 ELSE @]

\* contacts.map(c => c._id); reading _id of null or undefined throws
MapIds(contacts) == [k \in 1..Len(contacts.items) |-> GetProp(contacts.items[k], KeyId)]
MapIdsThrows(contacts) == \E k \in 1..Len(contacts.items) : PropThrows(contacts.items[k])

CountArguments == { Undefined, Num(0), Num(2) }
IdLists ==
    { <<>>, << Str(ContactId(1)) >>, << Str(ContactId(2)), Str(ContactId(1)) >>,
      << Str(ContactId(1)), Str(ContactId(2)), Str(ContactId(3)) >>,
      << Str(ContactId(1)), Str(ContactId(1)) >> }

(***************************************************************************)
(* The helpers called on their own: one call per behaviour.                *)
(***************************************************************************)
\* the helper returns to the position its caller resumes at; an exception
\* it raises is caught by no caller
Return(f, outcome) ==
    [f EXCEPT !.at = IF outcome.raised THEN "raised" ELSE f.resume,
              !.raised = outcome.raised, !.result = outcome.result,
              !.lines = @ \o outcome.lines]

CallRegisterAndLogin ==
    /\ flow.at = "idle"
    /\ \E response \in AuthAnswers(HTTP_STATUS_CREATED) :
          /\ requests' = Append(requests, Register(BuildUser))
          /\ ValidateResponse(response, "User Registration", Num(HTTP_STATUS_CREATED))
          /\ \E parsed \in { ParseJsonResponse(response) } :
             \E outcome \in { RegisterAndLoginOutcome(BuildUser, call'.result, parsed) } :
                flow' = Return([Frame EXCEPT !.helper = "registerAndLogin",
                                             !.answers = << response >>,
                                             !.lines = << LoggerLine("log", "User Registration", Str(TextEmail)) >>],
                               outcome)
    /\ UNCHANGED <<vuVars, legacy, pure>>

CallLogin ==
    /\ flow.at = "idle"
    /\ \E response \in AuthAnswers(HTTP_STATUS_OK) :
          /\ requests' = Append(requests, Login(Str(TextEmail), Str(TextPassword)))
          /\ ValidateResponse(response, "User Login", Num(HTTP_STATUS_OK))
          /\ \E parsed \in { ParseJsonResponse(response) } :
             \E outcome \in { LoginOutcome(call'.result, parsed) } :
                flow' = Return([Frame EXCEPT !.helper = "login",
                                             !.answers = << response >>,
                                             !.lines = << LoggerLine("log", "User Login", Str(TextEmail)) >>],
                               outcome)
    /\ UNCHANGED <<vuVars, legacy, pure>>

CallCreateMultiple ==
    /\ flow.at = "idle"
    /\ \E count \in CountArguments :
          flow' = EnterCreateMultiple(Frame, Str(TokenA), count)
    /\ UNCHANGED <<errorRate, successRate, apiDuration, failedRequests, console,
                   checkResults, call, ncalls, vuVars, legacy, requests, pure>>

\* one turn of the loop: createOne, the push, and the end of the turn
CreateAttempt ==
    /\ flow.at = "createMultiple"
    /\ flow.local.i < flow.local.count
    /\ \E response \in CreateAnswersIn(flow.test, flow.local.i + 1) :
          /\ requests' = Append(requests, ContactCreate(flow.token, BuildContact))
          /\ ValidateResponse(response, "Create Contact", Num(HTTP_STATUS_CREATED))
          /\ \E parsed \in { ParseJsonResponse(response) } :
             \E created \in { CreateOneOutcome(call'.result, parsed) } :
                flow' = [flow EXCEPT !.local = AfterCreateOne(@, created.value),
                                     !.answers = Append(@, response),
                                     !.lines = @ \o created.lines]
    /\ UNCHANGED <<vuVars, legacy, pure>>

CallDeleteMultiple ==
    /\ flow.at = "idle"
    /\ \E contactIds \in IdLists :
          flow' = EnterDeleteMultiple([Frame EXCEPT !.helper = "deleteMultiple"],
                                      Str(TokenA), contactIds)
    /\ UNCHANGED <<errorRate, successRate, apiDuration, failedRequests, console,
                   checkResults, call, ncalls, vuVars, legacy, requests, pure>>

\* one turn of the loop: deleteOne and the count
DeleteAttempt ==
    /\ flow.at = "deleteMultiple"
    /\ flow.local.i < Len(flow.local.contactIds)
    /\ \E response \in DeleteAnswersIn(flow.test) :
          /\ requests' = Append(requests,
                                ContactDelete(flow.token, flow.local.contactIds[flow.local.i + 1]))
          /\ ValidateResponse(response, "Delete Contact", Num(HTTP_STATUS_OK))
          /\ flow' = [flow EXCEPT !.local = AfterDeleteOne(@, call'.result),
                                  !.answers = Append(@, response)]
    /\ UNCHANGED <<vuVars, legacy, pure>>

CallDeleteAll ==
    /\ flow.at = "idle"
    /\ flow' = [Frame EXCEPT !.at = "deleteAll", !.helper = "deleteAll", !.token = Str(TokenA)]
    /\ UNCHANGED <<errorRate, successRate, apiDuration, failedRequests, console,
                   checkResults, call, ncalls, vuVars, legacy, requests, pure>>

\* deleteAll retrieves the contacts: it returns 0, or enters deleteMultiple
\* with the ids of the contacts
RetrieveContacts ==
    /\ flow.at = "deleteAll"
    /\ \E response \in GetAllAnswers :
          /\ requests' = Append(requests, ContactGetAll(flow.token))
          /\ ValidateResponse(response, "Get All Contacts", Num(HTTP_STATUS_OK))
          /\ \E parsed \in { ParseJsonResponse(response) } :
             \E got \in { GetAllOutcome(call'.result, parsed) } :
             \E f \in { [flow EXCEPT !.answers = Append(@, response),
                                     !.lines = (@ \o << LoggerLine("log", "Get All Contacts", Undefined) >>)
                                                 \o got.lines] } :
                flow' =
                   IF ~Truthy(got.value) \/ Len(got.value.items) = 0
                   THEN Return(f, [raised |-> FALSE, result |-> Num(0),
                                   lines |-> << LoggerLine("log", "No contacts to delete", Undefined) >>])
                   ELSE IF MapIdsThrows(got.value)
                   THEN Return(f, [raised |-> TRUE, result |-> Undefined, lines |-> <<>>])
                   ELSE EnterDeleteMultiple(f, flow.token, MapIds(got.value))
    /\ UNCHANGED <<vuVars, legacy, pure>>

\* the loop of createMultiple is over: the result is built and returned
ReturnCreateMultiple ==
    /\ flow.at = "createMultiple"
    /\ ~(flow.local.i < flow.local.count)
    /\ LET built == CreateMultipleResult(flow.local)
       IN  flow' = Return(flow, [raised |-> FALSE, result |-> built.result, lines |-> built.lines])
    /\ UNCHANGED <<errorRate, successRate, apiDuration, failedRequests, console,
                   checkResults, call, ncalls, vuVars, legacy, requests, pure>>

\* the loop of deleteMultiple is over: deletedCount is returned
ReturnDeleteMultiple ==
    /\ flow.at = "deleteMultiple"
    /\ ~(flow.local.i < Len(flow.local.contactIds))
    /\ flow' = Return(flow, [raised |-> FALSE, result |-> Num(flow.local.deletedCount),
                             lines |-> << LoggerLine("log", "Contact deleted successfully",
                                                     Num(flow.local.deletedCount)) >>])
    /\ UNCHANGED <<errorRate, successRate, apiDuration, failedRequests, console,
                   checkResults, call, ncalls, vuVars, legacy, requests, pure>>

NextHelpers ==
    \/ CallRegisterAndLogin
    \/ CallLogin
    \/ CallCreateMultiple
    \/ CreateAttempt
    \/ ReturnCreateMultiple
    \/ CallDeleteMultiple
    \/ DeleteAttempt
    \/ ReturnDeleteMultiple
    \/ CallDeleteAll
    \/ RetrieveContacts

SpecHelpers == Init /\ [][NextHelpers]_vars

(***************************************************************************)
(* tests/main.ts: one iteration of the legacy test.  It calls the legacy   *)
(* API clients (utils/api) and validates with checkResponse, whose metrics *)
(* and failure lines are in legacy; flow.lines holds the lines of logTest, *)
(* logSuccess, logError and parseJsonResponse.                             *)
(***************************************************************************)
numberOfContacts == 5
SampleLimit == 3

\* generateRandomUser() / generateRandomContact() of utils/helpers, as the
\* objects they return
GenerateRandomUser == Obj(<< [key |-> KeyEmail, val |-> Str(TextEmail)],
                             [key |-> KeyPassword, val |-> Str(TextPassword)] >>)
GenerateRandomContact == Obj(<< [key |-> KeyEmail, val |-> Str(TextEmail)] >>)

\* getHeaders() / getAuthHeaders(token) of utils/helpers
LegacyGetHeaders == << [key |-> HEADER_CONTENT_TYPE, val |-> CONTENT_TYPE_JSON] >>
LegacyGetAuthHeaders(token) ==
    LegacyGetHeaders \o << [key |-> HEADER_AUTHORIZATION, val |-> BearerPrefix \o ToStr(token)] >>

\* the request a client of utils/api hands to k6's http module
LegacyRequest(method, url, headers, body) ==
    [method |-> method, url |-> url, headers |-> headers, body |-> body]

LegacyRegister(userData) ==
    LegacyRequest("POST", Endpoint(API_USERS), LegacyGetHeaders, JsonStringify(userData))
LegacyLogin(email, password) ==
    LegacyRequest("POST", Endpoint(API_USERS_LOGIN), LegacyGetHeaders,
                  JsonStringify(Obj(<< [key |-> KeyEmail, val |-> email],
                                       [key |-> KeyPassword, val |-> password] >>)))
LegacyGetProfile(token) ==
    LegacyRequest("GET", Endpoint(API_USERS_ME), LegacyGetAuthHeaders(token), Null)
LegacyUpdateProfile(token, userData) ==
    LegacyRequest("PATCH", Endpoint(API_USERS_ME), LegacyGetAuthHeaders(token), JsonStringify(userData))
LegacyLogout(token) ==
    LegacyRequest("POST", Endpoint(API_USERS_LOGOUT), LegacyGetAuthHeaders(token), Null)
LegacyContactGetAll(token) ==
    LegacyRequest("GET", Endpoint(API_CONTACTS), LegacyGetAuthHeaders(token), Null)
LegacyContactGetById(token, contactId) ==
    LegacyRequest("GET", CONTACT_BY_ID(contactId), LegacyGetAuthHeaders(token), Null)
LegacyContactAdd(token, contactData) ==
    LegacyRequest("POST", Endpoint(API_CONTACTS), LegacyGetAuthHeaders(token), JsonStringify(contactData))
LegacyContactUpdate(token, contactId, contactData) ==
    LegacyRequest("PUT", CONTACT_BY_ID(contactId), LegacyGetAuthHeaders(token), JsonStringify(contactData))
LegacyContactPartialUpdate(token, contactId, contactData) ==
    LegacyRequest("PATCH", CONTACT_BY_ID(contactId), LegacyGetAuthHeaders(token), JsonStringify(contactData))
LegacyContactDelete(token, contactId) ==
    LegacyRequest("DELETE", CONTACT_BY_ID(contactId), LegacyGetAuthHeaders(token), Null)

\* logTest, logSuccess and logError of utils/helpers: the stream, the
\* message and the value interpolated into it
LogTest(testName, details) == LoggerLine("log", testName, details)
LogSuccess(message, detail) == LoggerLine("log", message, detail)
LogError(message) == LoggerLine("error", message, Undefined)

\* const updateData = { firstName: 'Updated', lastName: 'User' }
KeyFirstName == <<"f", "i", "r", "s", "t", "N", "a", "m", "e">>
KeyLastName == <<"l", "a", "s", "t", "N", "a", "m", "e">>
UpdateData == Obj(<< [key |-> KeyFirstName, val |-> Str(<<"U", "p", "d", "a", "t", "e", "d">>)],
                     [key |-> KeyLastName, val |-> Str(<<"U", "s", "e", "r">>)] >>)

\* parseJsonResponse of utils/helpers
LegacyParseJsonResponse(response) ==
    LET p == JsonParse(ToStr(response.body))
    IN  IF p.ok THEN [value |-> p.val, lines |-> <<>>]
        ELSE [value |-> Null,
              lines |-> << LoggerLine("error", "Failed to parse JSON", response.body) >>]

\* `Create Contact ${i + 1}` and `Get Contact ${i + 1}`
CreateContactName(i) ==
    << "Create Contact 1", "Create Contact 2", "Create Contact 3", "Create Contact 4",
       "Create Contact 5" >>[i + 1]
GetContactName(i) == << "Get Contact 1", "Get Contact 2", "Get Contact 3" >>[i + 1]

\* the answer is received and the lines of the step are written
Received(f, response, lines) ==
    [f EXCEPT !.answers = Append(@, response), !.lines = @ \o lines]

\* if (!token) { logError(...); return }
MainGuard(f) ==
    IF ~Truthy(f.token)
    THEN [f EXCEPT !.at = "done",
                   !.lines = Append(@, LogError("No authentication token available. Aborting tests."))]
    ELSE [f EXCEPT !.at = "02.getProfile"]

\* group 01 after checkResponse of the registration returned ok: a failed
\* registration leaves the group, any other goes on to the login
MainAfterRegister(f, ok, parsed) ==
    IF ~ok
    THEN MainGuard([f EXCEPT !.lines = Append(@, LogError("Failed to register user. Skipping remaining tests."))])
    ELSE IF Truthy(parsed.value) /\ Truthy(GetProp(parsed.value, KeyToken))
    THEN [f EXCEPT !.at = "01.login",
                   !.token = GetProp(parsed.value, KeyToken),
                   !.userId = IF PropThrows(GetProp(parsed.value, KeyUser)) THEN Undefined
                              ELSE GetProp(GetProp(parsed.value, KeyUser), KeyId),
                   !.lines = (@ \o parsed.lines)
                               \o << LogSuccess("User registered", Undefined) >>]
    ELSE [f EXCEPT !.at = "01.login", !.lines = @ \o parsed.lines]

\* group 01 after checkResponse of the login returned ok, and the guard
MainAfterLogin(f, ok, parsed) ==
    IF ok /\ Truthy(parsed.value) /\ Truthy(GetProp(parsed.value, KeyToken))
    THEN MainGuard([f EXCEPT !.token = GetProp(parsed.value, KeyToken),
                             !.lines = (@ \o parsed.lines)
                                         \o << LogSuccess("User logged in successfully", Undefined) >>])
    ELSE MainGuard([f EXCEPT !.lines = @ \o (IF ok THEN parsed.lines ELSE <<>>)])

\* a step that logs a success when the answer validates and parses to a
\* truthy value (profile, contact by id)
MainAfterRead(f, ok, parsed, message, next) ==
    [f EXCEPT !.at = next,
              !.lines = @ \o (IF ~ok THEN <<>>
                              ELSE IF Truthy(parsed.value)
                              THEN parsed.lines \o << LogSuccess(message, Undefined) >>
                              ELSE parsed.lines)]

\* a step that logs a success when the answer validates and parses to an array
MainAfterList(f, ok, parsed, message, next) ==
    [f EXCEPT !.at = next,
              !.lines = @ \o (IF ~ok THEN <<>>
                              ELSE IF Truthy(parsed.value) /\ IsArray(parsed.value)
                              THEN parsed.lines \o << LogSuccess(message, Num(Len(parsed.value.items))) >>
                              ELSE parsed.lines)]

\* one turn of the loop of group 03, and the end of the group after the last
MainAfterCreate(f, ok, parsed) ==
    LET pushed == ok /\ Truthy(parsed.value) /\ Truthy(GetProp(parsed.value, KeyId))
        ids == IF pushed THEN Append(f.contactIds, GetProp(parsed.value, KeyId)) ELSE f.contactIds
        last == ~(f.local.i + 1 < numberOfContacts)
    IN  [f EXCEPT !.contactIds = ids,
                  !.local = [i |-> IF last THEN 0 ELSE f.local.i + 1],
                  !.at = IF last THEN "04.getAll" ELSE "03.create",
                  !.lines = (@ \o (IF ok THEN parsed.lines ELSE <<>>))
                              \o (IF last THEN << LogSuccess("Created", Num(Len(ids))) >> ELSE <<>>)]

\* the position after group 04's list, after each sampled contact, and
\* after the updates of group 05
MainAfterList04(f) == IF Len(f.contactIds) > 0 THEN "04.getById" ELSE "07.getAll"
MainAfterSample(f) ==
    IF f.local.i + 1 < Min(SampleLimit, Len(f.contactIds)) THEN "04.getById" ELSE "05.put"

MainStart ==
    /\ flow.at = "idle"
    /\ flow' = [Frame EXCEPT !.at = "01.register", !.test = "main",
                             !.lines = << LogTest("User Registration", Str(TextEmail)) >>]
    /\ UNCHANGED <<errorRate, successRate, apiDuration, failedRequests, console,
                   checkResults, call, ncalls, vuVars, legacy, requests, pure>>

Main01Register ==
    /\ flow.at = "01.register" /\ flow.test = "main"
    /\ \E response \in RegisterAnswers :
          /\ requests' = Append(requests, LegacyRegister(GenerateRandomUser))
          /\ legacy' = CheckResponse(legacy, response, "User Registration", Num(HTTP_STATUS_CREATED))
          /\ \E parsed \in { LegacyParseJsonResponse(response) } :
                flow' = MainAfterRegister(Received(flow, response, <<>>), legacy'.result, parsed)
    /\ UNCHANGED <<errorRate, successRate, apiDuration, failedRequests, console,
                   checkResults, call, ncalls, vuVars, pure>>

Main01Login ==
    /\ flow.at = "01.login" /\ flow.test = "main"
    /\ \E response \in LoginAnswers :
          /\ requests' = Append(requests, LegacyLogin(Str(TextEmail), Str(TextPassword)))
          /\ legacy' = CheckResponse(legacy, response, "User Login", Num(HTTP_STATUS_OK))
          /\ \E parsed \in { LegacyParseJsonResponse(response) } :
                flow' = MainAfterLogin(
                            Received(flow, response, << LogTest("User Login", Str(TextEmail)) >>),
                            legacy'.result, parsed)
    /\ UNCHANGED <<errorRate, successRate, apiDuration, failedRequests, console,
                   checkResults, call, ncalls, vuVars, pure>>

Main02GetProfile ==
    /\ flow.at = "02.getProfile" /\ flow.test = "main"
    /\ \E response \in ProfileAnswers :
          /\ requests' = Append(requests, LegacyGetProfile(flow.token))
          /\ legacy' = CheckResponse(legacy, response, "Get User Profile", Num(HTTP_STATUS_OK))
          /\ \E parsed \in { LegacyParseJsonResponse(response) } :
                flow' = MainAfterRead(
                            Received(flow, response, << LogTest("Get User Profile", Undefined) >>),
                            legacy'.result, parsed, "Profile", "02.updateProfile")
    /\ UNCHANGED <<errorRate, successRate, apiDuration, failedRequests, console,
                   checkResults, call, ncalls, vuVars, pure>>

Main02UpdateProfile ==
    /\ flow.at = "02.updateProfile" /\ flow.test = "main"
    /\ \E response \in ProfileAnswers :
          /\ requests' = Append(requests, LegacyUpdateProfile(flow.token, UpdateData))
          /\ legacy' = CheckResponse(legacy, response, "Update User Profile", Num(HTTP_STATUS_OK))
          /\ flow' = [Received(flow, response,
                               << LogTest("Update User Profile", Undefined),
                                  LogTest("Creating multiple contacts", Undefined) >>)
                        EXCEPT !.at = "03.create", !.local = [i |-> 0]]
    /\ UNCHANGED <<errorRate, successRate, apiDuration, failedRequests, console,
                   checkResults, call, ncalls, vuVars, pure>>

Main03Create ==
    /\ flow.at = "03.create" /\ flow.test = "main"
    /\ \E response \in ContactAnswers(flow.local.i + 1) :
          /\ requests' = Append(requests, LegacyContactAdd(flow.token, GenerateRandomContact))
          /\ legacy' = CheckResponse(legacy, response, CreateContactName(flow.local.i),
                                     Num(HTTP_STATUS_CREATED))
          /\ \E parsed \in { LegacyParseJsonResponse(response) } :
                flow' = MainAfterCreate(Received(flow, response, <<>>), legacy'.result, parsed)
    /\ UNCHANGED <<errorRate, successRate, apiDuration, failedRequests, console,
                   checkResults, call, ncalls, vuVars, pure>>

Main04GetAll ==
    /\ flow.at = "04.getAll" /\ flow.test = "main"
    /\ \E response \in ListAnswers :
          /\ requests' = Append(requests, LegacyContactGetAll(flow.token))
          /\ legacy' = CheckResponse(legacy, response, "Get All Contacts", Num(HTTP_STATUS_OK))
          /\ \E parsed \in { LegacyParseJsonResponse(response) } :
                flow' = [MainAfterList(
                             Received(flow, response, << LogTest("Get All Contacts", Undefined) >>),
                             legacy'.result, parsed, "Retrieved", MainAfterList04(flow))
                           EXCEPT !.lines = @ \o (IF Len(flow.contactIds) > 0
                                                  THEN << LogTest("Get Individual Contacts", Undefined) >>
                                                  ELSE <<>>)]
    /\ UNCHANGED <<errorRate, successRate, apiDuration, failedRequests, console,
                   checkResults, call, ncalls, vuVars, pure>>

Main04GetById ==
    /\ flow.at = "04.getById" /\ flow.test = "main"
    /\ \E response \in ProfileAnswers :
          /\ requests' = Append(requests,
                                LegacyContactGetById(flow.token, flow.contactIds[flow.local.i + 1]))
          /\ legacy' = CheckResponse(legacy, response, GetContactName(flow.local.i), Num(HTTP_STATUS_OK))
          /\ \E parsed \in { LegacyParseJsonResponse(response) } :
                flow' = [MainAfterRead(Received(flow, response, <<>>), legacy'.result, parsed,
                                       "Retrieved", MainAfterSample(flow))
                           EXCEPT !.local = [i |-> IF MainAfterSample(flow) = "04.getById"
                                                   THEN flow.local.i + 1 ELSE 0]]
    /\ UNCHANGED <<errorRate, successRate, apiDuration, failedRequests, console,
                   checkResults, call, ncalls, vuVars, pure>>

Main05Put ==
    /\ flow.at = "05.put" /\ flow.test = "main"
    /\ \E response \in ProfileAnswers :
          /\ requests' = Append(requests,
                                LegacyContactUpdate(flow.token, flow.contactIds[1], GenerateRandomContact))
          /\ legacy' = CheckResponse(legacy, response, "Update Contact (PUT)", Num(HTTP_STATUS_OK))
          /\ flow' = [Received(flow, response,
                               << LogTest("Full Contact Update (PUT)", Undefined) >>)
                        EXCEPT !.at = "05.patch"]
    /\ UNCHANGED <<errorRate, successRate, apiDuration, failedRequests, console,
                   checkResults, call, ncalls, vuVars, pure>>

Main05Patch ==
    /\ flow.at = "05.patch" /\ flow.test = "main"
    /\ \E response \in ProfileAnswers :
          /\ requests' = Append(requests,
                                LegacyContactPartialUpdate(flow.token, flow.contactIds[1], GenerateRandomContact))
          /\ legacy' = CheckResponse(legacy, response, "Update Contact (PATCH)", Num(HTTP_STATUS_OK))
          /\ flow' = [Received(flow, response,
                               << LogTest("Partial Contact Update (PATCH)", Undefined),
                                  LogTest("Deleting contacts", Undefined) >>)
                        EXCEPT !.at = "06.delete", !.local = [i |-> 0, deletedCount |-> 0]]
    /\ UNCHANGED <<errorRate, successRate, apiDuration, failedRequests, console,
                   checkResults, call, ncalls, vuVars, pure>>

\* one turn of the loop of group 06, and the end of the group after the last
Main06Delete ==
    /\ flow.at = "06.delete" /\ flow.test = "main"
    /\ \E response \in RemovalAnswers :
          /\ requests' = Append(requests,
                                LegacyContactDelete(flow.token, flow.contactIds[flow.local.i + 1]))
          /\ legacy' = CheckResponse(legacy, response, "Delete Contact", Num(HTTP_STATUS_OK))
          /\ \E local \in { [i |-> flow.local.i + 1,
                              deletedCount |-> IF legacy'.result THEN flow.local.deletedCount + 1
                                               ELSE flow.local.deletedCount] } :
                flow' = IF local.i < Len(flow.contactIds)
                        THEN [Received(flow, response, <<>>) EXCEPT !.local = local]
                        ELSE [Received(flow, response,
                                       << LogSuccess("Deleted", Num(local.deletedCount)) >>)
                                EXCEPT !.local = local, !.at = "07.getAll"]
    /\ UNCHANGED <<errorRate, successRate, apiDuration, failedRequests, console,
                   checkResults, call, ncalls, vuVars, pure>>

Main07GetAll ==
    /\ flow.at = "07.getAll" /\ flow.test = "main"
    /\ \E response \in ListAnswers :
          /\ requests' = Append(requests, LegacyContactGetAll(flow.token))
          /\ legacy' = CheckResponse(legacy, response, "Get All Contacts", Num(HTTP_STATUS_OK))
          /\ \E parsed \in { LegacyParseJsonResponse(response) } :
                flow' = MainAfterList(
                            Received(flow, response,
                                     << LogTest("Verify contacts were deleted", Undefined) >>),
                            legacy'.result, parsed, "Remaining contacts", "08.logout")
    /\ UNCHANGED <<errorRate, successRate, apiDuration, failedRequests, console,
                   checkResults, call, ncalls, vuVars, pure>>

Main08Logout ==
    /\ flow.at = "08.logout" /\ flow.test = "main"
    /\ \E response \in LogoutAnswers :
          /\ requests' = Append(requests, LegacyLogout(flow.token))
          /\ legacy' = CheckResponse(legacy, response, "User Logout", Num(HTTP_STATUS_OK))
          /\ flow' = [Received(flow, response, << LogTest("User Logout", Undefined) >>)
                        EXCEPT !.at = "done"]
    /\ UNCHANGED <<errorRate, successRate, apiDuration, failedRequests, console,
                   checkResults, call, ncalls, vuVars, pure>>

NextMain ==
    \/ MainStart
    \/ Main01Register
    \/ Main01Login
    \/ Main02GetProfile
    \/ Main02UpdateProfile
    \/ Main03Create
    \/ Main04GetAll
    \/ Main04GetById
    \/ Main05Put
    \/ Main05Patch
    \/ Main06Delete
    \/ Main07GetAll
    \/ Main08Logout

SpecMain == Init /\ [][NextMain]_vars

(***************************************************************************)
(* tests/main.refactored.ts: one iteration of the refactored test.  It     *)
(* calls AuthHelper and ContactHelper, whose loops are the actions         *)
(* CreateAttempt and DeleteAttempt above; a helper returns to the position *)
(* flow.resume, and an exception it raises ends the iteration.             *)
(***************************************************************************)
\* if (!token) { LoggerService.error(...); return }
SuiteGuard(f) ==
    IF ~Truthy(f.token)
    THEN [f EXCEPT !.at = "done",
                   !.lines = Append(@, LoggerLine("error", "No authentication token. Skipping remaining tests.", Undefined))]
    ELSE [f EXCEPT !.at = "02.getProfile"]

\* group 01 after registerAndLogin returned or raised
SuiteAfterRegisterAndLogin(f, outcome) ==
    LET g == [f EXCEPT !.helper = "registerAndLogin", !.raised = outcome.raised,
                       !.result = outcome.result, !.lines = @ \o outcome.lines]
    IN  IF outcome.raised THEN [g EXCEPT !.at = "raised"]
        ELSE IF ~outcome.result.success \/ ~Truthy(outcome.result.token)
        THEN SuiteGuard([g EXCEPT !.lines = Append(@, LoggerLine("error", "Authentication failed. Aborting test.", Undefined))])
        ELSE IF Truthy(outcome.result.user)
        THEN [g EXCEPT !.at = "01.login", !.token = outcome.result.token,
                       !.userId = outcome.result.userId]
        ELSE SuiteGuard([g EXCEPT !.token = outcome.result.token, !.userId = outcome.result.userId])

\* group 01 after login returned or raised, and the guard
SuiteAfterLogin(f, outcome) ==
    LET g == [f EXCEPT !.helper = "login", !.raised = outcome.raised,
                       !.result = outcome.result, !.lines = @ \o outcome.lines]
    IN  IF outcome.raised THEN [g EXCEPT !.at = "raised"]
        ELSE IF outcome.result.success /\ Truthy(outcome.result.token)
        THEN SuiteGuard([g EXCEPT !.token = outcome.result.token])
        ELSE SuiteGuard(g)

\* getById once validateResponse has returned `validated`: the contact, or null
GetByIdOutcome(validated, parsed) ==
    IF ~validated
    THEN [value |-> Null, lines |-> <<>>]
    ELSE IF ~Truthy(parsed.value)
    THEN [value |-> Null,
          lines |-> parsed.lines \o << LoggerLine("error", "Invalid contact response", Undefined) >>]
    ELSE [value |-> parsed.value, lines |-> parsed.lines]

\* update and partialUpdate once validateResponse has returned `validated`
UpdateOutcome(validated) ==
    [value |-> Bool(validated),
     lines |-> IF validated THEN << LoggerLine("log", "Contact updated successfully", Undefined) >>
               ELSE <<>>]

\* const partialUpdates = { phone: '555-999-8888', city: 'Updated City' }
KeyPhone == <<"p", "h", "o", "n", "e">>
KeyCity == <<"c", "i", "t", "y">>
PartialUpdates ==
    Obj(<< [key |-> KeyPhone, val |-> Str(<<"5", "5", "5", "-", "9", "9", "9", "-", "8", "8", "8", "8">>)],
           [key |-> KeyCity, val |-> Str(<<"U", "p", "d", "a", "t", "e", "d", " ", "C", "i", "t", "y">>)] >>)

\* the position after group 04's list and after each sampled contact
SuiteAfterList04(f) == IF Len(f.contactIds) > 0 THEN "04.getById" ELSE "07.getAll"
SuiteAfterSample(f) ==
    IF f.local.i + 1 < Min(SampleLimit, Len(f.contactIds)) THEN "04.getById" ELSE "05.update"

SuiteStart ==
    /\ flow.at = "idle"
    /\ flow' = [Frame EXCEPT !.at = "01.registerAndLogin", !.test = "suite"]
    /\ UNCHANGED <<errorRate, successRate, apiDuration, failedRequests, console,
                   checkResults, call, ncalls, vuVars, legacy, requests, pure>>

Suite01RegisterAndLogin ==
    /\ flow.at = "01.registerAndLogin" /\ flow.test = "suite"
    /\ \E response \in RegisterAnswers :
          /\ requests' = Append(requests, Register(BuildUser))
          /\ ValidateResponse(response, "User Registration", Num(HTTP_STATUS_CREATED))
          /\ \E parsed \in { ParseJsonResponse(response) } :
             \E outcome \in { RegisterAndLoginOutcome(BuildUser, call'.result, parsed) } :
                flow' = SuiteAfterRegisterAndLogin(
                            Received(flow, response,
                                     << LoggerLine("log", "User Registration", Str(TextEmail)) >>),
                            outcome)
    /\ UNCHANGED <<vuVars, legacy, pure>>

Suite01Login ==
    /\ flow.at = "01.login" /\ flow.test = "suite"
    /\ \E response \in LoginAnswers \cup { OkAnswer(Str(TextTokenOnly)) } :
          /\ requests' = Append(requests,
                                Login(GetProp(flow.result.user, KeyEmail),
                                      GetProp(flow.result.user, KeyPassword)))
          /\ ValidateResponse(response, "User Login", Num(HTTP_STATUS_OK))
          /\ \E parsed \in { ParseJsonResponse(response) } :
             \E outcome \in { LoginOutcome(call'.result, parsed) } :
                flow' = SuiteAfterLogin(
                            Received(flow, response,
                                     << LoggerLine("log", "User Login", Str(TextEmail)) >>),
                            outcome)
    /\ UNCHANGED <<vuVars, legacy, pure>>

Suite02GetProfile ==
    /\ flow.at = "02.getProfile" /\ flow.test = "suite"
    /\ \E response \in ProfileAnswers :
          /\ requests' = Append(requests, GetProfile(flow.token))
          /\ ValidateResponse(response, "Get User Profile", Num(HTTP_STATUS_OK))
          /\ \E parsed \in { ParseJsonResponse(response) } :
                flow' = [Received(flow, response,
                                  << LoggerLine("log", "Get User Profile", Undefined) >>
                                    \o (IF ~call'.result THEN <<>>
                                        ELSE IF Truthy(parsed.value)
                                        THEN parsed.lines \o << LoggerLine("log", "Profile retrieved successfully", Undefined) >>
                                        ELSE parsed.lines))
                           EXCEPT !.at = "02.updateProfile"]
    /\ UNCHANGED <<vuVars, legacy, pure>>

Suite02UpdateProfile ==
    /\ flow.at = "02.updateProfile" /\ flow.test = "suite"
    /\ \E response \in ProfileAnswers :
          /\ requests' = Append(requests, UpdateProfile(flow.token, UpdateData))
          /\ ValidateResponse(response, "Update User Profile", Num(HTTP_STATUS_OK))
          /\ flow' = [Received(flow, response,
                               << LoggerLine("log", "Update User Profile", Undefined) >>
                                 \o (IF call'.result
                                     THEN << LoggerLine("log", "Profile updated successfully", Undefined) >>
                                     ELSE <<>>))
                        EXCEPT !.at = "03.createMultiple"]
    /\ UNCHANGED <<vuVars, legacy, pure>>

\* group 03 calls createMultiple(authToken)
Suite03CreateMultiple ==
    /\ flow.at = "03.createMultiple" /\ flow.test = "suite"
    /\ flow' = EnterCreateMultiple([flow EXCEPT !.resume = "03.push"], flow.token, Undefined)
    /\ UNCHANGED <<errorRate, successRate, apiDuration, failedRequests, console,
                   checkResults, call, ncalls, vuVars, legacy, requests, pure>>

\* contactIds.push(...result.contactIds)
Suite03Push ==
    /\ flow.at = "03.push" /\ flow.test = "suite"
    /\ flow' = [flow EXCEPT !.at = "04.getAll", !.contactIds = @ \o flow.result.contactIds]
    /\ UNCHANGED <<errorRate, successRate, apiDuration, failedRequests, console,
                   checkResults, call, ncalls, vuVars, legacy, requests, pure>>

Suite04GetAll ==
    /\ flow.at = "04.getAll" /\ flow.test = "suite"
    /\ \E response \in ListAnswers :
          /\ requests' = Append(requests, ContactGetAll(flow.token))
          /\ ValidateResponse(response, "Get All Contacts", Num(HTTP_STATUS_OK))
          /\ \E parsed \in { ParseJsonResponse(response) } :
             \E got \in { GetAllOutcome(call'.result, parsed) } :
                flow' = [Received(flow, response,
                                  (<< LoggerLine("log", "Get All Contacts", Undefined) >> \o got.lines)
                                    \o (IF Len(flow.contactIds) > 0
                                        THEN << LoggerLine("log", "Get Individual Contacts", Undefined) >>
                                        ELSE <<>>))
                           EXCEPT !.at = SuiteAfterList04(flow), !.helper = "getAll",
                                  !.local = [i |-> 0], !.result = got.value]
    /\ UNCHANGED <<vuVars, legacy, pure>>

Suite04GetById ==
    /\ flow.at = "04.getById" /\ flow.test = "suite"
    /\ \E response \in ProfileAnswers :
          /\ requests' = Append(requests,
                                ContactGetById(flow.token, flow.contactIds[flow.local.i + 1]))
          /\ ValidateResponse(response, "Get Contact by ID", Num(HTTP_STATUS_OK))
          /\ \E parsed \in { ParseJsonResponse(response) } :
             \E got \in { GetByIdOutcome(call'.result, parsed) } :
                flow' = [Received(flow, response,
                                  got.lines \o (IF Truthy(got.value)
                                                THEN << LoggerLine("log", "Contact retrieved successfully", Undefined) >>
                                                ELSE <<>>))
                           EXCEPT !.at = SuiteAfterSample(flow), !.helper = "getById",
                                  !.local = [i |-> IF SuiteAfterSample(flow) = "04.getById"
                                                   THEN flow.local.i + 1 ELSE 0],
                                  !.result = got.value]
    /\ UNCHANGED <<vuVars, legacy, pure>>

Suite05Update ==
    /\ flow.at = "05.update" /\ flow.test = "suite"
    /\ \E response \in ProfileAnswers :
          /\ requests' = Append(requests, ContactUpdate(flow.token, flow.contactIds[1], BuildContact))
          /\ ValidateResponse(response, "Update Contact (PUT)", Num(HTTP_STATUS_OK))
          /\ \E updated \in { UpdateOutcome(call'.result) } :
                flow' = [Received(flow, response,
                                  << LoggerLine("log", "Full Contact Update (PUT)", Undefined) >>
                                    \o updated.lines)
                           EXCEPT !.at = "05.partialUpdate", !.helper = "update",
                                  !.result = updated.value]
    /\ UNCHANGED <<vuVars, legacy, pure>>

Suite05PartialUpdate ==
    /\ flow.at = "05.partialUpdate" /\ flow.test = "suite"
    /\ \E response \in ProfileAnswers :
          /\ requests' = Append(requests,
                                ContactPartialUpdate(flow.token, flow.contactIds[1], PartialUpdates))
          /\ ValidateResponse(response, "Update Contact (PATCH)", Num(HTTP_STATUS_OK))
          /\ \E updated \in { UpdateOutcome(call'.result) } :
                flow' = [Received(flow, response,
                                  << LoggerLine("log", "Partial Contact Update (PATCH)", Undefined) >>
                                    \o updated.lines)
                           EXCEPT !.at = "06.deleteMultiple", !.helper = "partialUpdate",
                                  !.result = updated.value]
    /\ UNCHANGED <<vuVars, legacy, pure>>

\* group 06 calls deleteMultiple(authToken, contactIds)
Suite06DeleteMultiple ==
    /\ flow.at = "06.deleteMultiple" /\ flow.test = "suite"
    /\ flow' = EnterDeleteMultiple([flow EXCEPT !.helper = "deleteMultiple", !.resume = "07.getAll"],
                                   flow.token, flow.contactIds)
    /\ UNCHANGED <<errorRate, successRate, apiDuration, failedRequests, console,
                   checkResults, call, ncalls, vuVars, legacy, requests, pure>>

Suite07GetAll ==
    /\ flow.at = "07.getAll" /\ flow.test = "suite"
    /\ \E response \in ListAnswers :
          /\ requests' = Append(requests, ContactGetAll(flow.token))
          /\ ValidateResponse(response, "Get All Contacts", Num(HTTP_STATUS_OK))
          /\ \E parsed \in { ParseJsonResponse(response) } :
             \E got \in { GetAllOutcome(call'.result, parsed) } :
                flow' = [Received(flow, response,
                                  (<< LoggerLine("log", "Verify contacts were deleted", Undefined),
                                      LoggerLine("log", "Get All Contacts", Undefined) >> \o got.lines)
                                    \o (IF Truthy(got.value)
                                        THEN << LoggerLine("log", "Remaining contacts", Num(Len(got.value.items))) >>
                                        ELSE <<>>))
                           EXCEPT !.at = "08.logout", !.helper = "getAll", !.result = got.value]
    /\ UNCHANGED <<vuVars, legacy, pure>>

Suite08Logout ==
    /\ flow.at = "08.logout" /\ flow.test = "suite"
    /\ \E response \in LogoutAnswers :
          /\ requests' = Append(requests, Logout(flow.token))
          /\ ValidateResponse(response, "User Logout", Num(HTTP_STATUS_OK))
          /\ \E outcome \in { LogoutOutcome(call'.result) } :
                flow' = [Received(flow, response,
                                  << LoggerLine("log", "User Logout", Undefined) >> \o outcome.lines)
                           EXCEPT !.at = "done", !.helper = "logout", !.result = outcome.result]
    /\ UNCHANGED <<vuVars, legacy, pure>>

NextSuite ==
    \/ SuiteStart
    \/ Suite01RegisterAndLogin
    \/ Suite01Login
    \/ Suite02GetProfile
    \/ Suite02UpdateProfile
    \/ Suite03CreateMultiple
    \/ CreateAttempt
    \/ ReturnCreateMultiple
    \/ Suite03Push
    \/ Suite04GetAll
    \/ Suite04GetById
    \/ Suite05Update
    \/ Suite05PartialUpdate
    \/ Suite06DeleteMultiple
    \/ DeleteAttempt
    \/ ReturnDeleteMultiple
    \/ Suite07GetAll
    \/ Suite08Logout

SpecSuite == Init /\ [][NextSuite]_vars

TypeOK ==
    /\ failedRequests \in Nat
    /\ ncalls \in 0..MaxCalls

(***************************************************************************)
(* Vocabulary of the properties.                                           *)
(***************************************************************************)
IsValidateResponse(c) == c.op = "validateResponse"
IsValidateErrorResponse(c) == c.op = "validateErrorResponse"

\* the call returned the boolean b
Returned(c, b) == ~c.raised /\ c.result = b

\* the expected status the call compares with, given the default of its validator
EffectiveExpected(c, default) ==
    IF c.expectedStatus = Undefined THEN Num(default) ELSE c.expectedStatus

HasTimings(r) == r.timings # Undefined

\* the three criteria of the Response Validator, stated on the fields of the response
StatusCriterion(c, default) ==
    c.response.status.t = "number" /\ c.response.status.n = EffectiveExpected(c, default).n
LatencyCriterion(c) ==
    /\ HasTimings(c.response)
    /\ c.response.timings.duration.t = "number"
    /\ c.response.timings.duration.n < MAX_RESPONSE_TIME_MS
BodyCriterion(c) == c.response.body # Null /\ c.response.body # Str(<<>>)
AllCriteria(c) ==
    StatusCriterion(c, HTTP_STATUS_OK) /\ LatencyCriterion(c) /\ BodyCriterion(c)

\* the series and the log of the Metrics Recorder are as before the step
RecorderUnchanged ==
    UNCHANGED <<errorRate, successRate, apiDuration, failedRequests, console>>

\* the lines the step wrote to the console
LinesWritten == SubSeq(console', Len(console) + 1, Len(console'))
ConsoleExtended == Len(console') >= Len(console) /\ SubSeq(console', 1, Len(console)) = console

\* the outcomes reported under the label by the latest check() call
Reported(label) ==
    { checkResults[i].pass : i \in { j \in DOMAIN checkResults : checkResults[j].name.label = label } }

C3_SuccessLeavesCounterAndLog ==
    [][ (IsValidateResponse(call') /\ AllCriteria(call'))
        => /\ Returned(call', TRUE)
           /\ failedRequests' = failedRequests
           /\ console' = console ]_vars

\* a passing call after a failing one
C3_Witness ==
    /\ IsValidateResponse(call)
    /\ Returned(call, TRUE)
    /\ AllCriteria(call)
    /\ ncalls = 2
    /\ failedRequests = 1
    /\ Len(console) = 1

NoIndicatorBodies ==
    { Null, Str(<<>>), Str(TextNotJson), Str(TextOk), Str(TextUnclosed), Str(TextTrailing),
      Str(TextNullLiteral), Str(TextString), Str(TextNumber), Str(TextArray),
      Str(TextEmptyObject), Str(TextOkTrue),
      Str(TextMessageEmpty), Str(TextErrorZero), Str(TextErrorNullMessageEmpty) }
IndicatorBodies ==
    { Str(TextMessage), Str(TextError), Str(TextErrorFalseMessage), Str(TextErrorObject) }

ErrorIndicator(body) ==
    LET parsed == JsonParse(ToStr(body))
    IN  /\ parsed.ok
        /\ parsed.val.t = "object"
        /\ \/ Truthy(GetProp(parsed.val, KeyError))
           \/ Truthy(GetProp(parsed.val, KeyMessage))

C5_ErrorResponseIffStatusAndIndicator ==
    IsValidateErrorResponse(call) =>
        /\ ~call.raised
        /\ call.result <=> (/\ StatusCriterion(call, HTTP_STATUS_BAD_REQUEST)
                            /\ ErrorIndicator(call.response.body))
        /\ call.response.body \in NoIndicatorBodies => call.result = FALSE
        /\ (call.response.body \in IndicatorBodies
              /\ StatusCriterion(call, HTTP_STATUS_BAD_REQUEST)) => call.result = TRUE

C5_Witness ==
    /\ IsValidateErrorResponse(call)
    /\ Returned(call, TRUE)
    /\ call.expectedStatus = Undefined
    /\ call.response.status = Num(HTTP_STATUS_BAD_REQUEST)
    /\ call.response.body = Str(TextMessage)

(***************************************************************************)
(* C6.  validateErrorResponse leaves the Metrics Recorder and the log as   *)
(* they were: the error-rate, success-rate and duration series, the        *)
(* failed-request counter and the console are the same before and after    *)
(* the call, whatever it returns.                                          *)
(***************************************************************************)
C6_ErrorResponseRecordsNothing ==
    [][ IsValidateErrorResponse(call') => RecorderUnchanged ]_vars

\* a failing validateErrorResponse call after a failing validateResponse call
C6_Witness ==
    /\ IsValidateErrorResponse(call)
    /\ Returned(call, FALSE)
    /\ ncalls = 2
    /\ Len(errorRate) = 1
    /\ Len(apiDuration) = 1
    /\ failedRequests = 1
    /\ Len(console) = 1

(***************************************************************************)
(* C7.  validateResponse never raises: on a response that lacks            *)
(* timings.duration or status the call completes and returns false.        *)
(***************************************************************************)
MissingField(r) ==
    \/ r.status = Undefined
    \/ ~HasTimings(r)
    \/ r.timings.duration = Undefined

C7_NeverRaises ==
    IsValidateResponse(call) =>
        /\ ~call.raised
        /\ MissingField(call.response) => Returned(call, FALSE)

(***************************************************************************)
(* C8.  As claimed: on a response whose body is null or cannot be parsed   *)
(* as structured data, validateResponse does not raise, the body check     *)
(* evaluates to false and the call returns false.  (Stated for responses   *)
(* that carry timings, so that only the body decides.)                     *)
(***************************************************************************)
Unparsable(body) == ~JsonParse(ToStr(body)).ok

C9_MalformedBodyPasses ==
    [][ (/\ IsValidateResponse(call')
         /\ call'.response.body.t = "string"
         /\ Len(call'.response.body.s) > 0
         /\ Unparsable(call'.response.body)
         /\ StatusCriterion(call', HTTP_STATUS_OK)
         /\ LatencyCriterion(call'))
        => /\ Returned(call', TRUE)
           /\ errorRate' = Append(errorRate, FALSE)
           /\ failedRequests' = failedRequests
           /\ console' = console ]_vars

C9_Witness ==
    /\ IsValidateResponse(call)
    /\ call.response.body = Str(TextNotJson)
    /\ Returned(call, TRUE)
    /\ Reported("response has body") = {TRUE}
    /\ ncalls = 2
    /\ errorRate = <<TRUE, FALSE>>
    /\ failedRequests = 1
    /\ Len(console) = 1

(***************************************************************************)
(* C10.  When validateResponse fails on a response with a non-empty body   *)
(* of length L, the body preview of the failure line is exactly the first  *)
(* min(L, LOG_BODY_PREVIEW_LENGTH) characters of the body.                 *)
(***************************************************************************)
C10_PreviewIsBodyPrefix ==
    (/\ IsValidateResponse(call)
     /\ Returned(call, FALSE)
     /\ call.response.body.t = "string"
     /\ Len(call.response.body.s) > 0)
    => /\ Len(console) > 0
       /\ LET preview == console[Len(console)].bodyPreview
              body == call.response.body.s
          IN  /\ Len(preview) = Min(Len(body), LOG_BODY_PREVIEW_LENGTH)
              /\ \A i \in 1..Len(preview) : preview[i] = body[i]

\* the longest body is cut to LOG_BODY_PREVIEW_LENGTH characters
C10_Witness ==
    /\ IsValidateResponse(call)
    /\ Returned(call, FALSE)
    /\ call.response.body = Str(LongText(LongBodyLength))
    /\ Len(console) = 1
    /\ Len(console[1].bodyPreview) = LOG_BODY_PREVIEW_LENGTH
    /\ Len(call.response.body.s) > LOG_BODY_PREVIEW_LENGTH

(***************************************************************************)
(* C14.  Metrics are append-only: over any sequence of validator and       *)
(* recorder operations every step keeps the samples already recorded in    *)
(* the error-rate, success-rate and duration series, in place and          *)
(* unaltered, and never lowers the failed-request counter.                 *)
(***************************************************************************)
IsPrefix(a, b) == Len(a) <= Len(b) /\ SubSeq(b, 1, Len(a)) = a

C14_AppendOnly ==
    [][ /\ IsPrefix(errorRate, errorRate')
        /\ IsPrefix(successRate, successRate')
        /\ IsPrefix(apiDuration, apiDuration')
        /\ failedRequests' >= failedRequests ]_vars

\* a failing validateResponse call after a direct recordApiDuration call
C14_Witness ==
    /\ IsValidateResponse(call)
    /\ Returned(call, FALSE)
    /\ ncalls = 2
    /\ Len(apiDuration) = 2
    /\ apiDuration[1] # apiDuration[2]
    /\ Len(errorRate) = 1
    /\ failedRequests = 1

(***************************************************************************)
(* C16.  Each recorder operation called on its own touches only its own    *)
(* series: recordError appends its argument to the error-rate series,      *)
(* recordSuccess to the success-rate series, recordApiDuration to the      *)
(* duration series, incrementFailedRequests raises the counter by exactly  *)
(* 1; each leaves the other three series and the console unchanged and     *)
(* does not raise.                                                         *)
(***************************************************************************)
C16_RecorderOperationsAreIndependent ==
    [][ /\ call'.op = "recordError" =>
              /\ errorRate' = Append(errorRate, call'.arg.b)
              /\ UNCHANGED <<successRate, apiDuration, failedRequests, console>>
              /\ ~call'.raised
        /\ call'.op = "recordSuccess" =>
              /\ successRate' = Append(successRate, call'.arg.b)
              /\ UNCHANGED <<errorRate, apiDuration, failedRequests, console>>
              /\ ~call'.raised
        /\ call'.op = "recordApiDuration" =>
              /\ apiDuration' = Append(apiDuration, call'.arg.n)
              /\ UNCHANGED <<errorRate, successRate, failedRequests, console>>
              /\ ~call'.raised
        /\ call'.op = "incrementFailedRequests" =>
              /\ failedRequests' = failedRequests + 1
              /\ UNCHANGED <<errorRate, successRate, apiDuration, console>>
              /\ ~call'.raised ]_vars

\* recordError(false) called on its own after a failing validateResponse call
C16_Witness ==
    /\ call.op = "recordError"
    /\ call.arg = Bool(FALSE)
    /\ errorRate = <<TRUE, FALSE>>
    /\ successRate = <<FALSE>>
    /\ Len(apiDuration) = 1
    /\ failedRequests = 1
    /\ Len(console) = 1

(***************************************************************************)
(* C15.  Two validateResponse calls with the same response, test name and  *)
(* expected status end the same way: both return the same boolean (or both *)
(* raise), whatever the recorder has accumulated between them.             *)
(***************************************************************************)
SameArguments(c, d) ==
    /\ c.response = d.response
    /\ c.testName = d.testName
    /\ c.expectedStatus = d.expectedStatus

ReportedLabels == [i \in DOMAIN checkResults |-> checkResults[i].name.label]

ReportedUnderTestName ==
    \A i \in DOMAIN checkResults : checkResults[i].name.testName = call.testName

C17_AllChecksReported ==
    /\ IsValidateResponse(call) =>
          /\ ReportedLabels = <<"status is", "response time <", "response has body">>
          /\ ReportedUnderTestName
          /\ checkResults[1].pass = StatusCriterion(call, HTTP_STATUS_OK)
          /\ checkResults[2].pass = LatencyCriterion(call)
          /\ checkResults[3].pass = BodyCriterion(call)
    /\ IsValidateErrorResponse(call) =>
          /\ ReportedLabels = <<"status is", "has error message">>
          /\ ReportedUnderTestName
          /\ checkResults[1].pass = StatusCriterion(call, HTTP_STATUS_BAD_REQUEST)
          /\ checkResults[2].pass = ErrorIndicator(call.response.body)

\* the calls that report fewer checks are those on a response without timings
AllChecksReportedWithTimings ==
    HasTimings(call.response) => C17_AllChecksReported

(***************************************************************************)
(* C18.  With expectedStatus omitted validateResponse compares the status  *)
(* of the response with 200 and validateErrorResponse compares it with     *)
(* 400; a supplied expectedStatus is the one compared with.                *)
(***************************************************************************)
\* the status check of the latest call compared the status with e
StatusComparedWith(e) ==
    /\ Len(checkResults) >= 1
    /\ checkResults[1].name.label = "status is"
    /\ checkResults[1].name.arg = e
    /\ checkResults[1].pass = (call.response.status = e)

C18_DefaultExpectedStatus ==
    /\ (IsValidateResponse(call) /\ call.expectedStatus = Undefined)
          => StatusComparedWith(Num(200))
    /\ (IsValidateErrorResponse(call) /\ call.expectedStatus = Undefined)
          => StatusComparedWith(Num(400))
    /\ ((IsValidateResponse(call) \/ IsValidateErrorResponse(call))
          /\ call.expectedStatus # Undefined)
          => StatusComparedWith(call.expectedStatus)

\* a supplied 201 replaces the default 400 of validateErrorResponse
C18_Witness ==
    /\ IsValidateErrorResponse(call)
    /\ call.expectedStatus = Num(HTTP_STATUS_CREATED)
    /\ call.response.status = Num(HTTP_STATUS_CREATED)
    /\ call.response.body = Str(TextMessage)
    /\ Returned(call, TRUE)

(***************************************************************************)
(* C20.  In runs of validateResponse and validateErrorResponse calls the   *)
(* failed-request counter equals the number of validateResponse calls that *)
(* returned false, the number of true samples of the error-rate series    *)
(* and the number of false samples of the success-rate series.            *)
(***************************************************************************)
CountOf(series, b) == Cardinality({ i \in DOMAIN series : series[i] = b })

\* 1 when the call returned false from validateResponse, else 0
FalseReturn(c) == IF IsValidateResponse(c) /\ Returned(c, FALSE) THEN 1 ELSE 0

C20_CounterCountsFalseReturns ==
    /\ [](/\ failedRequests = CountOf(errorRate, TRUE)
          /\ failedRequests = CountOf(successRate, FALSE))
    /\ [][ failedRequests' = failedRequests + FalseReturn(call') ]_vars

\* a failing validateResponse call followed by a failing validateErrorResponse call
C20_Witness ==
    /\ IsValidateErrorResponse(call)
    /\ Returned(call, FALSE)
    /\ ncalls = 2
    /\ failedRequests = 1
    /\ errorRate = <<TRUE>>
    /\ successRate = <<FALSE>>

(***************************************************************************)
(* C19.  Fed the same calls, ValidatorService and the legacy helpers agree: *)
(* validateResponse and checkResponse end the same way (same boolean),     *)
(* leave the same samples in errors, success and api_duration and the same *)
(* failed_requests count, and have logged a failure line for the same      *)
(* calls; validateErrorResponse and checkErrorResponse return the same     *)
(* boolean.                                                                *)
(***************************************************************************)
SameFailureLines ==
    /\ Len(legacy.console) = Len(console)
    /\ \A i \in DOMAIN console :
          /\ legacy.console[i].stream = console[i].stream
          /\ legacy.console[i].testName = console[i].testName
          /\ legacy.console[i].status = console[i].status
          /\ legacy.console[i].bodyPreview = console[i].bodyPreview

C19_LegacyHelpersAgree ==
    /\ legacy.errorRate = errorRate
    /\ legacy.successRate = successRate
    /\ legacy.apiDuration = apiDuration
    /\ legacy.failedRequests = failedRequests
    /\ SameFailureLines
    /\ (IsValidateResponse(call) \/ IsValidateErrorResponse(call))
          => (legacy.raised = call.raised /\ legacy.result = call.result)

\* a failing validateResponse/checkResponse pair at the latency bound, then a
\* validateErrorResponse/checkErrorResponse pair on a body whose "error" is 0
C19_Witness ==
    /\ IsValidateErrorResponse(call)
    /\ call.response.body = Str(TextErrorZero)
    /\ call.expectedStatus = Undefined
    /\ call.response.status = Num(HTTP_STATUS_BAD_REQUEST)
    /\ Returned(call, FALSE)
    /\ legacy.result = FALSE
    /\ legacy.apiDuration = <<MAX_RESPONSE_TIME_MS>>
    /\ legacy.failedRequests = 1
    /\ Len(legacy.console) = 1

(***************************************************************************)
(* C11.  Within a validateResponse call the effects come in one order: the *)
(* three checks, then recordError, recordSuccess and recordApiDuration,    *)
(* and then, on a false outcome only, incrementFailedRequests and the      *)
(* failure line.  A series gets its sample only from a call that has done  *)
(* exactly the effects before it; the counter and the log are touched only *)
(* after the three recordings, by a call whose outcome is false.           *)
(***************************************************************************)
FixedOrder ==
    << "status is", "response time <", "response has body",
       "recordError", "recordSuccess", "recordApiDuration",
       "incrementFailedRequests", "logFailure" >>

\* some call has done exactly the first n effects and does effect n + 1 in this step
DoesEffect(n) ==
    \E vu \in VUs : /\ trace[vu] = SubSeq(FixedOrder, 1, n)
                    /\ trace'[vu] = SubSeq(FixedOrder, 1, n + 1)

C11_EffectsInFixedOrder ==
    /\ [](\A vu \in VUs :
            /\ IsPrefix(trace[vu], FixedOrder)
            /\ Len(trace[vu]) > 6 => ~cur[vu].success)
    /\ [][ /\ errorRate' # errorRate => DoesEffect(3)
           /\ successRate' # successRate => DoesEffect(4)
           /\ apiDuration' # apiDuration => DoesEffect(5)
           /\ failedRequests' # failedRequests => DoesEffect(6)
           /\ console' # console => DoesEffect(7) ]_vars

\* one call has run through all eight effects while another is between its
\* two rate samples
C11_Witness ==
    \E vu, other \in VUs :
        /\ trace[vu] = FixedOrder
        /\ pc[vu] = "return"
        /\ pc[other] = "recordSuccess"
        /\ Len(errorRate) = 2
        /\ Len(successRate) = 1
        /\ failedRequests = 1
        /\ Len(console) = 1

(***************************************************************************)
(* C12.  Validation is all-or-nothing per response: a response that is     *)
(* given up before validateResponse is entered adds nothing, and every     *)
(* validateResponse call adds one sample to each of the error-rate,        *)
(* success-rate and duration series; so whenever no call is in progress    *)
(* each of the three series holds as many samples as calls have ended.     *)
(***************************************************************************)
NoCallInProgress == \A vu \in VUs : pc[vu] \in {"idle", "received"}

C12_OneSamplePerCall ==
    NoCallInProgress =>
        /\ Len(errorRate) = BagCardinality(calls)
        /\ Len(successRate) = BagCardinality(calls)
        /\ Len(apiDuration) = BagCardinality(calls)

(***************************************************************************)
(* C13.  With the recording steps of concurrent validateResponse calls     *)
(* interleaved in any order no sample is lost or overwritten, and once the *)
(* calls have ended the totals of the four series (true and false error    *)
(* samples, true and false success samples, the multiset of durations, the *)
(* failed-request count) are those the ended calls determine, whatever the *)
(* interleaving was.                                                       *)
(***************************************************************************)
\* the part of bag B whose elements satisfy P
Where(B, P(_)) == [c \in { d \in BagToSet(B) : P(d) } |-> B[c]]

\* the samples of a series as a bag
SeqToBag(series) ==
    [x \in { series[i] : i \in DOMAIN series } |->
        Cardinality({ i \in DOMAIN series : series[i] = x })]

\* what a call with these arguments does, from its arguments alone
CallReturns(c) == HasTimings(c.response)
CallFails(c) == CallReturns(c) /\ ~AllCriteria(c)
CallPasses(c) == AllCriteria(c)
CallHasDuration(c) == HasTimings(c.response) /\ c.response.timings.duration.t = "number"
DurationOf(c) == c.response.timings.duration.n

SeriesAppendOnly ==
    /\ IsPrefix(errorRate, errorRate')
    /\ IsPrefix(successRate, successRate')
    /\ IsPrefix(apiDuration, apiDuration')
    /\ failedRequests' >= failedRequests

C13_TotalsIndependentOfInterleaving ==
    /\ [](NoCallInProgress =>
            /\ CountOf(errorRate, TRUE) = BagCardinality(Where(calls, CallFails))
            /\ CountOf(errorRate, FALSE) = BagCardinality(Where(calls, CallPasses))
            /\ CountOf(successRate, TRUE) = BagCardinality(Where(calls, CallPasses))
            /\ CountOf(successRate, FALSE) = BagCardinality(Where(calls, CallFails))
            /\ SeqToBag(apiDuration) = BagOfAll(DurationOf, Where(calls, CallHasDuration))
            /\ failedRequests = BagCardinality(Where(calls, CallFails)))
    /\ [][SeriesAppendOnly]_vars

\* two calls have ended whose recording steps were interleaved: the failing
\* call recorded its error sample first, the passing call its success sample first
C13_Witness ==
    /\ NoCallInProgress
    /\ BagCardinality(calls) = 2
    /\ errorRate = <<TRUE, FALSE>>
    /\ successRate = <<TRUE, FALSE>>
    /\ Len(apiDuration) = 2
    /\ failedRequests = 1

(***************************************************************************)
(* C29.  A validateResponse call that returns false on a response whose    *)
(* body is null or the empty string writes exactly one failure line, which *)
(* carries the test name, the status and the placeholder 'No body' as its  *)
(* body preview.                                                           *)
(***************************************************************************)
C29_NoBodyPlaceholder ==
    [][ (/\ IsValidateResponse(call')
         /\ Returned(call', FALSE)
         /\ call'.response.body \in { Null, Str(<<>>) })
        => /\ ConsoleExtended
           /\ Len(LinesWritten) = 1
           /\ LinesWritten[1].bodyPreview = NoBody
           /\ LinesWritten[1].testName = call'.testName
           /\ LinesWritten[1].status = call'.response.status ]_vars

\* a second failing call, on an empty body that is its only failed criterion
C29_Witness ==
    /\ IsValidateResponse(call)
    /\ Returned(call, FALSE)
    /\ call.response.body = Str(<<>>)
    /\ call.response.status = Num(HTTP_STATUS_OK)
    /\ call.response.timings = Timings(Num(120))
    /\ Len(console) = 2
    /\ console[2].bodyPreview = NoBody
    /\ console[1].bodyPreview = TextNotJson

(***************************************************************************)
(* C30.  calculateStats returns all zeros for an empty list; for a         *)
(* non-empty list of n non-negative durations it returns min <= avg <= max, *)
(* p95 the element at index floor(0.95 n) of the ascending sort, p99 the   *)
(* element at index floor(0.99 n), and so min <= p95 <= p99 <= max.        *)
(***************************************************************************)
StatsApplied == pure.op = "calculateStats"
StatsList == IF pure.arg = Undefined THEN <<>> ELSE pure.arg.items

C30_StatsOfDurations ==
    StatsApplied =>
        LET n == Len(StatsList)
            st == pure.result
            sorted == SortAscending(StatsList)
        IN  IF n = 0
            THEN st.min = 0 /\ st.max = 0 /\ st.avg.sum = 0 /\ st.p95 = 0 /\ st.p99 = 0
            ELSE /\ st.min * st.avg.count <= st.avg.sum
                 /\ st.avg.sum <= st.max * st.avg.count
                 /\ st.avg.count = n
                 /\ st.p95 = sorted[Floor95(n) + 1]
                 /\ st.p99 = sorted[Floor99(n) + 1]
                 /\ st.min <= st.p95
                 /\ st.p95 <= st.p99
                 /\ st.p99 <= st.max

\* the lists on which p95 and p99 are not the elements at their indices have
\* a zero at one of the two indices and a larger maximum
PercentileOffIndex ==
    LET n == Len(StatsList)
        sorted == SortAscending(StatsList)
    IN  /\ StatsApplied
        /\ n > 0
        /\ \/ pure.result.p95 # sorted[Floor95(n) + 1]
           \/ pure.result.p99 # sorted[Floor99(n) + 1]

OnlyZeroIsReplaced ==
    PercentileOffIndex =>
        LET n == Len(StatsList)
            sorted == SortAscending(StatsList)
        IN  /\ sorted[n] > 0
            /\ sorted[Floor95(n) + 1] = 0 \/ sorted[Floor99(n) + 1] = 0

(***************************************************************************)
(* C27.  getEnvironment picks the configuration by the lower-cased         *)
(* ENVIRONMENT: production, staging, qa or development in any letter case  *)
(* gives that environment's configuration, an unset ENVIRONMENT gives      *)
(* production, and any other value gives the production configuration,     *)
(* with a warning.                                                         *)
(***************************************************************************)
ConfigurationLoaded == pure.op = "configuration"

\* s is name in some letter case
SameLetters(s, name) ==
    /\ Len(s) = Len(name)
    /\ \A i \in DOMAIN s :
          \/ s[i] = name[i]
          \/ \E k \in DOMAIN UpperCase : UpperCase[k] = s[i] /\ LowerCase[k] = name[i]

Names(v, name) == v # Undefined /\ SameLetters(v.s, name)

Warned == \E i \in DOMAIN console : console[i].stream = "warn"

C27_EnvironmentSelection ==
    ConfigurationLoaded =>
        LET e == pure.ENVIRONMENT
        IN  /\ Names(e, NameProduction) => pure.env.name = "Production" /\ ~Warned
            /\ Names(e, NameStaging) => pure.env.name = "Staging" /\ ~Warned
            /\ Names(e, NameQa) => pure.env.name = "QA" /\ ~Warned
            /\ Names(e, NameDevelopment) => pure.env.name = "Development" /\ ~Warned
            /\ e = Undefined => pure.env.name = "Production"
            /\ (/\ e # Undefined
                /\ \A name \in { NameProduction, NameStaging, NameQa, NameDevelopment } :
                      ~Names(e, name))
               => /\ pure.env.t = "object"
                  /\ pure.env.name = "Production"
                  /\ e # Str(<<>>) => Warned

\* the values that get neither their own configuration nor production are
\* the names of inherited properties
OnlyInheritedNamesEscape ==
    (ConfigurationLoaded /\ pure.env.t # "object")
        => ToLowerCase(pure.ENVIRONMENT.s) \in InheritedKeys

(***************************************************************************)
(* C28.  For every TEST_TYPE, unset and unrecognised values included       *)
(* (they run the smoke scenario), the http_reqs rate threshold of the run  *)
(* is the one defined for the test type of the scenario that runs.         *)
(***************************************************************************)
\* the threshold getRequestRateThreshold defines for each test type
ThresholdDefinedFor(name) ==
    CASE name = "smoke" -> "0.5"
      [] name = "load" -> "10"
      [] name = "stress" -> "20"
      [] name = "spike" -> "15"

C28_ThresholdMatchesScenario ==
    ConfigurationLoaded =>
        /\ pure.scenario.t = "object"
        /\ pure.httpReqsRate = ThresholdDefinedFor(pure.scenario.name)

\* the test types whose threshold is not that of their scenario are the
\* unrecognised ones
OnlyUnrecognisedTypesMismatch ==
    (ConfigurationLoaded /\ ~C28_ThresholdMatchesScenario)
        => /\ pure.TEST_TYPE # Undefined
           /\ pure.TEST_TYPE.s \notin { <<>>, TypeSmoke, TypeLoad, TypeStress, TypeSpike }
           /\ pure.httpReqsRate = "1"

(***************************************************************************)
(* C26.  Every request sent through HttpService carries Content-Type:      *)
(* application/json, and carries Authorization: Bearer <token> exactly     *)
(* when a non-empty token was supplied; with the token omitted or empty    *)
(* the request has no Authorization header.                                *)
(***************************************************************************)
HeaderValues(request, key) ==
    { request.headers[i].val : i \in { j \in DOMAIN request.headers :
                                         request.headers[j].key = key } }

LastRequest == requests[Len(requests)]

C26_RequestHeaders ==
    /\ \A i \in DOMAIN requests :
          HeaderValues(requests[i], "Content-Type") = { CONTENT_TYPE_JSON }
    /\ pure.op = "http" =>
          /\ LastRequest.method = pure.method
          /\ IF pure.token \in { Undefined, Str(<<>>) }
             THEN HeaderValues(LastRequest, "Authorization") = {}
             ELSE HeaderValues(LastRequest, "Authorization")
                     = { BearerPrefix \o pure.token.s }

\* a DELETE with an empty token after a request that carried a token
C26_Witness ==
    /\ pure.op = "http"
    /\ pure.method = "DELETE"
    /\ pure.token = Str(<<>>)
    /\ Len(requests) = 2
    /\ HeaderValues(requests[1], "Authorization") = { BearerPrefix \o TokenA }
    /\ HeaderValues(requests[2], "Authorization") = {}

(***************************************************************************)
(* Vocabulary of the helper properties.                                    *)
(***************************************************************************)
\* the helper has been called / has returned a value
HelperCalled(name) == flow.at # "idle" /\ flow.helper = name
HelperReturned(name) == flow.at = "returned" /\ flow.helper = name

\* the answer meets the three criteria of validateResponse for the status
Validates(answer, status) ==
    /\ answer.status = Num(status)
    /\ answer.timings.duration.n < MAX_RESPONSE_TIME_MS
    /\ answer.body # Null /\ answer.body # Str(<<>>)

\* the value of the key in the JSON body of the answer, undefined when the
\* body is no JSON object or lacks the key
BodyField(answer, key) ==
    LET p == JsonParse(ToStr(answer.body))
    IN  IF p.ok THEN GetProp(p.val, key) ELSE Undefined

ExpectedOf(name) == IF name = "registerAndLogin" THEN HTTP_STATUS_CREATED ELSE HTTP_STATUS_OK

\* what C25 states of one of the two helpers
AuthResultOf(name) ==
    /\ flow.result.success <=> flow.result.token # Null
    /\ flow.result.success =>
          /\ Validates(flow.answers[1], ExpectedOf(name))
          /\ Truthy(BodyField(flow.answers[1], KeyToken))
          /\ flow.result.token = BodyField(flow.answers[1], KeyToken)
    /\ ~flow.result.success => flow.result.token = Null /\ flow.result.userId = Null

(***************************************************************************)
(* C25.  For every registration or login response, registerAndLogin and    *)
(* login return a result in which success is true if and only if token is  *)
(* non-null: success is true only when the response validated (201 for     *)
(* register, 200 for login) and its parsed body carries a token, and every *)
(* failure result has token null and userId null.                          *)
(***************************************************************************)
C25_AuthResult ==
    \A name \in {"registerAndLogin", "login"} :
        HelperCalled(name) => (flow.at = "returned" /\ AuthResultOf(name))

\* every result that is returned is as C25 says
AuthResultWhenReturned ==
    \A name \in {"registerAndLogin", "login"} : HelperReturned(name) => AuthResultOf(name)

\* no result is returned exactly when the response validated and its body
\* carries a token and no user
OnlyMissingUserRaises ==
    \A name \in {"registerAndLogin", "login"} :
        HelperCalled(name) =>
            (flow.at = "raised" <=>
                /\ Validates(flow.answers[1], ExpectedOf(name))
                /\ Truthy(BodyField(flow.answers[1], KeyToken))
                /\ PropThrows(BodyField(flow.answers[1], KeyUser)))

(***************************************************************************)
(* C23.  createMultiple(token, count) performs exactly count create        *)
(* attempts however many fail, returns in contactIds the ids of the        *)
(* attempts that validated with 201 and carried an _id, in attempt order,  *)
(* returns count equal to the length of contactIds (so between 0 and the   *)
(* count asked for), and returns success true if and only if the two       *)
(* counts are equal.                                                       *)
(***************************************************************************)
\* the create attempt succeeded: a validated 201 whose body carries an _id
Created(answer) ==
    Validates(answer, HTTP_STATUS_CREATED) /\ Truthy(BodyField(answer, KeyId))

\* the ids of the attempts that succeeded, in attempt order
IdsCreated(answers) ==
    LET kept == SelectSeq(answers, Created)
    IN  [k \in 1..Len(kept) |-> BodyField(kept[k], KeyId)]

C23_CreateMultiple ==
    HelperCalled("createMultiple") =>
        /\ Len(requests) = flow.local.i
        /\ \A k \in 1..Len(requests) : requests[k] = ContactCreate(flow.token, BuildContact)
        /\ flow.at = "createMultiple" => flow.local.i <= flow.local.count
        /\ flow.at = "returned" =>
              /\ Len(requests) = flow.local.count
              /\ flow.result.contactIds = IdsCreated(flow.answers)
              /\ flow.result.count = Len(flow.result.contactIds)
              /\ flow.result.count \in 0..flow.local.count
              /\ flow.result.success <=> flow.result.count = flow.local.count

\* the default count, with failed attempts before, between and after the
\* two that succeed
C23_Witness ==
    /\ HelperReturned("createMultiple")
    /\ flow.local.count = DEFAULT_CONTACTS_COUNT
    /\ Len(requests) = DEFAULT_CONTACTS_COUNT
    /\ ~Created(flow.answers[1])
    /\ Created(flow.answers[2])
    /\ flow.answers[3].timings.duration = Num(MAX_RESPONSE_TIME_MS)
    /\ Created(flow.answers[4])
    /\ ~Created(flow.answers[5])
    /\ flow.result = [success |-> FALSE, count |-> 2,
                      contactIds |-> << Str(ContactId(2)), Str(ContactId(4)) >>]

(***************************************************************************)
(* C24.  deleteMultiple issues exactly one delete request per id of its    *)
(* input, in input order, goes on after a delete that fails, and returns   *)
(* the number of deletes that validated; deleteAll returns 0 without any   *)
(* delete when retrieving the contacts fails or yields an empty list, and  *)
(* otherwise issues one delete for every contact retrieved.                *)
(***************************************************************************)
\* the n delete requests for the ids, in order
DeletesOf(token, ids) == [k \in 1..Len(ids) |-> ContactDelete(token, ids[k])]

\* the contacts an answer to getAll delivers: the elements of its JSON
\* array, none when the answer fails validation or is no array
Retrieved(answer) ==
    LET p == JsonParse(ToStr(answer.body))
    IN  IF Validates(answer, HTTP_STATUS_OK) /\ p.ok /\ IsArray(p.val) THEN p.val.items ELSE <<>>

Deleted(answer) == Validates(answer, HTTP_STATUS_OK)

C24_DeleteMultipleAndAll ==
    /\ HelperCalled("deleteMultiple") =>
          /\ requests = SubSeq(DeletesOf(flow.token, flow.local.contactIds), 1, flow.local.i)
          /\ flow.at = "returned" =>
                /\ requests = DeletesOf(flow.token, flow.local.contactIds)
                /\ flow.result = Num(Len(SelectSeq(flow.answers, Deleted)))
                /\ flow.result.n \in 0..Len(flow.local.contactIds)
    /\ (HelperCalled("deleteAll") /\ Len(flow.answers) > 0) =>
          LET contacts == Retrieved(flow.answers[1])
              ids == [k \in 1..Len(contacts) |-> GetProp(contacts[k], KeyId)]
          IN  /\ requests[1] = ContactGetAll(flow.token)
              /\ Len(contacts) = 0 =>
                    flow.at = "returned" /\ flow.result = Num(0) /\ Len(requests) = 1
              /\ (Len(contacts) > 0 /\ flow.at = "returned") =>
                    /\ SubSeq(requests, 2, Len(requests)) = DeletesOf(flow.token, ids)
                    /\ flow.result = Num(Len(SelectSeq(SubSeq(flow.answers, 2, Len(flow.answers)), Deleted)))

\* three ids, the first delete fails and the two after it are still sent
C24_Witness ==
    /\ HelperReturned("deleteMultiple")
    /\ Len(flow.local.contactIds) = 3
    /\ ~Deleted(flow.answers[1])
    /\ Deleted(flow.answers[2]) /\ Deleted(flow.answers[3])
    /\ Len(requests) = 3
    /\ flow.result = Num(2)

\* deleteAll has deleted the two contacts it retrieved
DeleteAllDeletes ==
    /\ HelperReturned("deleteAll")
    /\ Len(requests) = 3
    /\ requests[3].url = CONTACT_BY_ID(Str(ContactId(2)))
    /\ flow.result = Num(2)

\* deleteAll has returned 0 on a slow answer that lists two contacts
DeleteAllGivesUp ==
    /\ HelperReturned("deleteAll")
    /\ flow.answers[1].body = Str(TextContacts(1, 2))
    /\ Len(requests) = 1
    /\ flow.result = Num(0)

(***************************************************************************)
(* Vocabulary of the iteration properties.                                 *)
(***************************************************************************)
\* an iteration of one of the two tests has begun
IterationRuns == flow.at # "idle" /\ flow.test # "none"

\* the registration answer validated and yielded a token
Registered(answer) ==
    Validates(answer, HTTP_STATUS_CREATED) /\ Truthy(BodyField(answer, KeyToken))

IsRegistration(request) == request.method = "POST" /\ request.url = Endpoint(API_USERS)
IsLogin(request) == request.method = "POST" /\ request.url = Endpoint(API_USERS_LOGIN)

(***************************************************************************)
(* C22.  In the main test flow, when the registration response fails       *)
(* validation (or no authentication token is obtained), the iteration      *)
(* issues no further HTTP request: no login, profile, contact or logout    *)
(* request follows, and every profile, contact and logout request of an    *)
(* iteration is preceded by a registration that validated and yielded a    *)
(* token.                                                                  *)
(***************************************************************************)
C22_NothingWithoutRegistration ==
    (IterationRuns /\ Len(requests) > 0) =>
        /\ IsRegistration(requests[1])
        /\ ~Registered(flow.answers[1]) => Len(requests) = 1
        /\ \A k \in 1..Len(requests) :
              (~IsRegistration(requests[k]) /\ ~IsLogin(requests[k])) =>
                  Registered(flow.answers[1])

\* a registration that fails validation is followed by no request, in
\* either test
FailedRegistrationEnds ==
    (IterationRuns /\ Len(requests) > 0) =>
        (~Validates(flow.answers[1], HTTP_STATUS_CREATED) =>
            Len(requests) = 1 /\ flow.at = "done")

\* the legacy test has logged in, and gone on with the token of the login,
\* after a registration that validated without a token
LoginWithoutRegistration ==
    /\ flow.at = "done" /\ flow.test = "main"
    /\ Validates(flow.answers[1], HTTP_STATUS_CREATED)
    /\ ~Truthy(BodyField(flow.answers[1], KeyToken))
    /\ IsLogin(requests[2])
    /\ requests[Len(requests)] = LegacyLogout(Str(TokenB))

\* the refactored test has gone through all its groups
SuiteDone ==
    /\ flow.at = "done" /\ flow.test = "suite"
    /\ requests[Len(requests)] = Logout(Str(TokenB))
    /\ Len(flow.contactIds) = 2

(***************************************************************************)
(* C21.  In the main test flow every contact created during an iteration   *)
(* is deleted before the iteration ends: for each create request that the  *)
(* server answers with status 201 and an _id, exactly one delete request   *)
(* for that _id is issued later in the same iteration, and no delete is    *)
(* issued for an id that was not created in that iteration.                *)
(***************************************************************************)
IsCreate(request) == request.method = "POST" /\ request.url = Endpoint(API_CONTACTS)
IsDeleteOf(request, id) == request.method = "DELETE" /\ request.url = CONTACT_BY_ID(id)

\* the server answered the create with status 201 and an _id
AnsweredCreated(answer) ==
    answer.status = Num(HTTP_STATUS_CREATED) /\ Truthy(BodyField(answer, KeyId))

\* the delete requests for the id issued after request k
DeletesAfter(k, id) == { j \in (k + 1)..Len(requests) : IsDeleteOf(requests[j], id) }

\* every delete is for an id that an earlier create of the iteration returned
DeletesOnlyCreated ==
    \A j \in 1..Len(requests) :
        requests[j].method = "DELETE" =>
            \E k \in 1..(j - 1) :
                /\ IsCreate(requests[k])
                /\ AnsweredCreated(flow.answers[k])
                /\ IsDeleteOf(requests[j], BodyField(flow.answers[k], KeyId))

C21_CreatedAreDeleted ==
    IterationRuns =>
        /\ flow.at = "done" =>
              \A k \in 1..Len(requests) :
                  (IsCreate(requests[k]) /\ AnsweredCreated(flow.answers[k])) =>
                      Cardinality(DeletesAfter(k, BodyField(flow.answers[k], KeyId))) = 1
        /\ DeletesOnlyCreated

\* the contacts whose create validated are deleted, each once, and those
\* whose create was answered 201 with an _id but failed validation never
RecordedAreDeleted ==
    IterationRuns =>
        /\ flow.at = "done" =>
              \A k \in 1..Len(requests) :
                  (IsCreate(requests[k]) /\ AnsweredCreated(flow.answers[k])) =>
                      Cardinality(DeletesAfter(k, BodyField(flow.answers[k], KeyId)))
                          = IF Created(flow.answers[k]) THEN 1 ELSE 0
        /\ DeletesOnlyCreated

\* an iteration has ended with a contact that the server created in 500 ms
\* and that no request deletes, between two that are deleted
SlowCreateIsLeft ==
    /\ IterationRuns /\ flow.at = "done"
    /\ \E k \in 2..(Len(requests) - 1) :
          /\ IsCreate(requests[k - 1]) /\ Created(flow.answers[k - 1])
          /\ IsCreate(requests[k]) /\ AnsweredCreated(flow.answers[k])
          /\ flow.answers[k].timings.duration = Num(MAX_RESPONSE_TIME_MS)
          /\ IsCreate(requests[k + 1]) /\ Created(flow.answers[k + 1])
          /\ DeletesAfter(k, BodyField(flow.answers[k], KeyId)) = {}
          /\ Cardinality({ j \in 1..Len(requests) : requests[j].method = "DELETE" }) = 2

====
